---- MODULE Spec2Model ----
(***************************************************************************)
(* Line-level document diff of siyuan-plugin-doc-diff: text normalisation, *)
(* longest common subsequence, the three-pointer classifier, the context  *)
(* collapser and the statistics, as one run of computeTextDiff.           *)
(*                                                                         *)
(* A text is a sequence of characters, each a string: an ASCII character   *)
(* is written as itself, any other by its code point, as "U+00A0".  A line *)
(* is such a sequence without line breaks; a JavaScript argument is a      *)
(* record [kind, val] with kind "string", "null" or "undefined".  Cursors  *)
(* i, j, k are 0-based as in the source, so element i of an array is       *)
(* seq[i+1].                                                               *)
(*                                                                         *)
(* The plugin around it (src/src/index.ts): compareDocuments fetching two  *)
(* documents from the host, the diff dialog's closure state and its        *)
(* handlers, the callbacks registered on window, and the asynchronous      *)
(* handlers split at each await.  Spec runs computeTextDiff; DialogSpec    *)
(* runs comparisons, their dialogs and the handlers of the dialogs.         *)
(***************************************************************************)
EXTENDS Integers, Sequences, FiniteSets, TLC

VARIABLES text1, text2,                     \* arguments of computeTextDiff
          processedText1, processedText2,   \* after preprocessText
          lines1, lines2,                   \* after split + filter
          lcs,                              \* longestCommonSubsequence(lines1, lines2)
          i, j, k, oldLineNum, newLineNum,  \* cursors of computeLineDiff
          result,                           \* computeLineDiff's full record list
          diff,                             \* the collapsed list computeLineDiff returns
          stats,                            \* calculateStats(diff)
          pc,                               \* position inside computeTextDiff
          store,                            \* host: the markdown of each document
          cmp,                              \* the compareDocuments calls, by the dialog each opens
          dialogs,                          \* closure state of each showDiffDialog call
          window,                           \* the callbacks registered on window
          ops,                              \* the asynchronous handlers, in the order they started
          started,                          \* asynchronous handlers started so far
          shown                             \* messages shown by the latest step

coreVars == <<text1, text2, processedText1, processedText2, lines1, lines2, lcs,
              i, j, k, oldLineNum, newLineNum, result, diff, stats, pc>>

dialogVars == <<store, cmp, dialogs, window, ops, started, shown>>

vars == <<coreVars, dialogVars>>

----------------------------------------------------------------------------
(* Bounds of the explored inputs *)

MaxLines == 5        \* lines per document, documents over the lines "a", "b"
MaxTextLen == 3      \* characters per document, documents over a, CR, LF
MaxStyleLines == 3   \* lines per document rendered in several line-break styles
MaxRun == 8          \* length of the unchanged run of the long documents
MaxMarkerLen == 5    \* characters of the one-line documents over { : space }
MaxTailLen == 4      \* characters after "{:" of the lines with non-ASCII blanks
MaxOperations == 2   \* compareDocuments calls and handler clicks in one run

----------------------------------------------------------------------------
(* Characters and JavaScript values *)

CR == "\r"
LF == "\n"

Str(s) == [kind |-> "string", val |-> s]
Null == [kind |-> "null", val |-> <<>>]
Undefined == [kind |-> "undefined", val |-> <<>>]

SeqsUpTo(S, n) == UNION {[1..m -> S] : m \in 0..n}

RECURSIVE Concat(_)
Concat(ss) == IF ss = <<>> THEN <<>> ELSE Head(ss) \o Concat(Tail(ss))

\* the text whose lines are ls, every line followed by the line break term
Render(ls, term) == Concat([n \in 1..Len(ls) |-> ls[n] \o term])

LineBreaks == {<<LF>>, <<CR, LF>>, <<CR>>}

----------------------------------------------------------------------------
(* Text normaliser *)

\* text || ''
OrEmpty(v) == IF v.kind = "string" /\ v.val # <<>> THEN v.val ELSE <<>>

\* text.replace(/\r\n/g, '\n')
RECURSIVE ReplaceCRLF(_)
ReplaceCRLF(text) ==
    IF text = <<>> THEN <<>>
    ELSE IF Len(text) >= 2 /\ text[1] = CR /\ text[2] = LF
         THEN <<LF>> \o ReplaceCRLF(SubSeq(text, 3, Len(text)))
         ELSE <<text[1]>> \o ReplaceCRLF(Tail(text))

\* text.replace(/\r/g, '\n')
ReplaceCR(text) == [n \in 1..Len(text) |-> IF text[n] = CR THEN LF ELSE text[n]]

\* as normalizeLineEndings, without the first replace
normalizeLineEndingsNoCRLF(text) == ReplaceCR(text)

\* as normalizeLineEndings, without the second replace
normalizeLineEndingsNoLoneCR(text) == ReplaceCRLF(text)

normalizeLineEndings(text) == ReplaceCR(ReplaceCRLF(text))

\* as preprocessText, appending the line break without looking at the end
preprocessTextAlwaysAppend(text) ==
    IF text = <<>> THEN <<>>
    ELSE Append(normalizeLineEndings(text), LF)

preprocessText(text) ==
    IF text = <<>> THEN <<>>
    ELSE LET processed == normalizeLineEndings(text)
         IN  IF Len(processed) > 0 /\ processed[Len(processed)] # LF
             THEN Append(processed, LF)
             ELSE processed

\* text.split('\n'): always at least one piece
RECURSIVE Split(_)
Split(text) ==
    IF \A n \in 1..Len(text) : text[n] # LF THEN <<text>>
    ELSE LET p == CHOOSE n \in 1..Len(text) :
                      text[n] = LF /\ \A q \in 1..(n - 1) : text[q] # LF
         IN  <<SubSeq(text, 1, p - 1)>> \o Split(SubSeq(text, p + 1, Len(text)))

\* as KeepLine, keeping every piece
KeepLineAlways(line, index, array) == TRUE

\* as KeepLine, dropping every empty piece
KeepLineNonEmpty(line, index, array) == line # <<>>

\* the filter callback: index < array.length - 1 || line !== ''  (index 0-based)
KeepLine(line, index, array) == index < Len(array) - 1 \/ line # <<>>

RECURSIVE FilterFrom(_, _)
FilterFrom(array, n) ==
    IF n > Len(array) THEN <<>>
    ELSE (IF KeepLine(array[n], n - 1, array) THEN <<array[n]>> ELSE <<>>)
         \o FilterFrom(array, n + 1)

\* processedText.split('\n').filter(...)
SplitLines(processed) == FilterFrom(Split(processed), 1)

----------------------------------------------------------------------------
(* Marker lines *)

\* characters outside the printable ASCII range, by code point
VT == "U+000B"
NBSP == "U+00A0"
LS == "U+2028"
PS == "U+2029"
BOM == "U+FEFF"

\* the characters \s matches and trim() strips
WhiteSpace == {" ", "\t", "\n", "\r", "\f", VT, NBSP, "U+1680",
               "U+2000", "U+2001", "U+2002", "U+2003", "U+2004", "U+2005",
               "U+2006", "U+2007", "U+2008", "U+2009", "U+200A",
               LS, PS, "U+202F", "U+205F", "U+3000", BOM}
\* the characters the dot of a regular expression does not match
LineTerminators == {"\n", "\r", LS, PS}

RECURSIVE TrimStart(_)
TrimStart(s) ==
    IF s # <<>> /\ s[1] \in WhiteSpace THEN TrimStart(Tail(s)) ELSE s

RECURSIVE TrimEnd(_)
TrimEnd(s) ==
    IF s # <<>> /\ s[Len(s)] \in WhiteSpace
    THEN TrimEnd(SubSeq(s, 1, Len(s) - 1)) ELSE s

Trim(s) == TrimEnd(TrimStart(s))

\* as isIdLine, the pattern ending before the closing brace: /^\s*\{:\s+.*/
isIdLineNoBrace(content) ==
    LET t == Trim(content)
    IN  \E w \in 0..Len(t) :
            /\ \A n \in 1..w : t[n] \in WhiteSpace
            /\ w + 3 <= Len(t) /\ t[w + 1] = "{" /\ t[w + 2] = ":"
            /\ t[w + 3] \in WhiteSpace

\* /^\s*\{:\s+.*}/.test(content.trim())
isIdLine(content) ==
    LET t == Trim(content)
    IN  \E w \in 0..Len(t) : \E s \in 1..Len(t) : \E p \in 1..Len(t) :
            /\ \A n \in 1..w : t[n] \in WhiteSpace
            /\ w + 2 <= Len(t) /\ t[w + 1] = "{" /\ t[w + 2] = ":"
            /\ \A n \in (w + 3)..(w + 2 + s) : n <= Len(t) /\ t[n] \in WhiteSpace
            /\ p > w + 2 + s
            /\ \A n \in (w + 3 + s)..(p - 1) : t[n] \notin LineTerminators
            /\ t[p] = "}"

----------------------------------------------------------------------------
(* Sequence aligner *)

Max(a, b) == IF a > b THEN a ELSE b

\* as DpCell, with the smaller neighbour
DpCellMin(match, diag, up, left) ==
    IF match THEN diag + 1 ELSE IF up < left THEN up ELSE left

\* one cell of the DP table
DpCell(match, diag, up, left) ==
    IF match THEN diag + 1 ELSE Max(up, left)

\* row r of the table from row r - 1, filled for jj = 1 .. n; a row is a
\* sequence whose element jj + 1 is dp[r][jj]
RECURSIVE DpRow(_, _, _, _, _)
DpRow(prev, arr1, arr2, r, cur) ==
    IF Len(cur) > Len(arr2) THEN cur
    ELSE LET jj == Len(cur)
         IN  DpRow(prev, arr1, arr2, r,
                   Append(cur, DpCell(arr1[r] = arr2[jj], prev[jj], prev[jj + 1], cur[jj])))

\* the table: a sequence whose element r + 1 is row r
RECURSIVE DpRows(_, _, _)
DpRows(arr1, arr2, rows) ==
    IF Len(rows) > Len(arr1) THEN rows
    ELSE DpRows(arr1, arr2,
                Append(rows, DpRow(rows[Len(rows)], arr1, arr2, Len(rows), <<0>>)))

DpTable(arr1, arr2) == DpRows(arr1, arr2, <<[n \in 1..(Len(arr2) + 1) |-> 0]>>)

\* as Backtrack, the loop ending one row and one column early
RECURSIVE BacktrackShort(_, _, _, _, _, _)
BacktrackShort(dp, arr1, arr2, ii, jj, acc) ==
    IF ~(ii > 1 /\ jj > 1) THEN acc
    ELSE IF arr1[ii] = arr2[jj]
         THEN BacktrackShort(dp, arr1, arr2, ii - 1, jj - 1, <<arr1[ii]>> \o acc)
         ELSE IF dp[ii][jj + 1] > dp[ii + 1][jj]
              THEN BacktrackShort(dp, arr1, arr2, ii - 1, jj, acc)
              ELSE BacktrackShort(dp, arr1, arr2, ii, jj - 1, acc)

\* as Backtrack, with push in place of unshift
RECURSIVE BacktrackPush(_, _, _, _, _, _)
BacktrackPush(dp, arr1, arr2, ii, jj, acc) ==
    IF ~(ii > 0 /\ jj > 0) THEN acc
    ELSE IF arr1[ii] = arr2[jj]
         THEN BacktrackPush(dp, arr1, arr2, ii - 1, jj - 1, Append(acc, arr1[ii]))
         ELSE IF dp[ii][jj + 1] > dp[ii + 1][jj]
              THEN BacktrackPush(dp, arr1, arr2, ii - 1, jj, acc)
              ELSE BacktrackPush(dp, arr1, arr2, ii, jj - 1, acc)

\* as Backtrack, with >= in place of > between the two neighbour cells
RECURSIVE BacktrackPreferFirst(_, _, _, _, _, _)
BacktrackPreferFirst(dp, arr1, arr2, ii, jj, acc) ==
    IF ~(ii > 0 /\ jj > 0) THEN acc
    ELSE IF arr1[ii] = arr2[jj]
         THEN BacktrackPreferFirst(dp, arr1, arr2, ii - 1, jj - 1, <<arr1[ii]>> \o acc)
         ELSE IF dp[ii][jj + 1] >= dp[ii + 1][jj]
              THEN BacktrackPreferFirst(dp, arr1, arr2, ii - 1, jj, acc)
              ELSE BacktrackPreferFirst(dp, arr1, arr2, ii, jj - 1, acc)

\* the backtracking loop from (ii, jj), acc being the lcs built so far
RECURSIVE Backtrack(_, _, _, _, _, _)
Backtrack(dp, arr1, arr2, ii, jj, acc) ==
    IF ~(ii > 0 /\ jj > 0) THEN acc
    ELSE IF arr1[ii] = arr2[jj]
         THEN Backtrack(dp, arr1, arr2, ii - 1, jj - 1, <<arr1[ii]>> \o acc)
         ELSE IF dp[ii][jj + 1] > dp[ii + 1][jj]
              THEN Backtrack(dp, arr1, arr2, ii - 1, jj, acc)
              ELSE Backtrack(dp, arr1, arr2, ii, jj - 1, acc)

longestCommonSubsequence(arr1, arr2) ==
    Backtrack(DpTable(arr1, arr2), arr1, arr2, Len(arr1), Len(arr2), <<>>)

----------------------------------------------------------------------------
(* Diff records *)

ContextRecord(old, new, content) ==
    [type |-> "context", oldLineNumber |-> old, newLineNumber |-> new,
     content |-> content, isIdLine |-> isIdLine(content)]

\* as RemovedRecord, the number stored under the new-side key
RemovedRecordNewKey(old, content) ==
    [type |-> "removed", newLineNumber |-> old,
     content |-> content, isIdLine |-> isIdLine(content)]

RemovedRecord(old, content) ==
    [type |-> "removed", oldLineNumber |-> old,
     content |-> content, isIdLine |-> isIdLine(content)]

\* as AddedRecord, with the old line number set too
AddedRecordBothNumbers(new, content) ==
    [type |-> "added", oldLineNumber |-> new, newLineNumber |-> new,
     content |-> content, isIdLine |-> isIdLine(content)]

AddedRecord(new, content) ==
    [type |-> "added", newLineNumber |-> new,
     content |-> content, isIdLine |-> isIdLine(content)]

HasOld(r) == "oldLineNumber" \in DOMAIN r
HasNew(r) == "newLineNumber" \in DOMAIN r

----------------------------------------------------------------------------
(* Diff line classifier *)

\* as ClassifyBranch, without the test lines2[j] === lcs[k]
ClassifyBranchNoNewTest(l1, l2, cs, ii, jj, kk) ==
    IF /\ kk < Len(cs) /\ ii < Len(l1) /\ jj < Len(l2)
       /\ l1[ii + 1] = cs[kk + 1]
    THEN "context"
    ELSE IF ii < Len(l1) /\ (kk >= Len(cs) \/ l1[ii + 1] # cs[kk + 1])
         THEN "removed"
         ELSE IF jj < Len(l2) THEN "added" ELSE "none"

\* as ClassifyBranch, with the added branch tested before the removed branch
ClassifyBranchAddedFirst(l1, l2, cs, ii, jj, kk) ==
    IF /\ kk < Len(cs) /\ ii < Len(l1) /\ jj < Len(l2)
       /\ l1[ii + 1] = cs[kk + 1] /\ l2[jj + 1] = cs[kk + 1]
    THEN "context"
    ELSE IF jj < Len(l2) /\ (kk >= Len(cs) \/ l2[jj + 1] # cs[kk + 1])
         THEN "added"
         ELSE IF ii < Len(l1) THEN "removed" ELSE "none"

\* which branch of the loop body is taken with cursors ii, jj, kk
ClassifyBranch(l1, l2, cs, ii, jj, kk) ==
    IF /\ kk < Len(cs) /\ ii < Len(l1) /\ jj < Len(l2)
       /\ l1[ii + 1] = cs[kk + 1] /\ l2[jj + 1] = cs[kk + 1]
    THEN "context"
    ELSE IF ii < Len(l1) /\ (kk >= Len(cs) \/ l1[ii + 1] # cs[kk + 1])
         THEN "removed"
         ELSE IF jj < Len(l2) THEN "added" ELSE "none"

\* as EmittedRecord, a removed record numbered by the new-side counter
EmittedRecordNewCounter(branch, l1, l2, ii, jj, old, new) ==
    CASE branch = "context" -> ContextRecord(old, new, l1[ii + 1])
      [] branch = "removed" -> RemovedRecord(new, l1[ii + 1])
      [] branch = "added"   -> AddedRecord(new, l2[jj + 1])

\* the record the branch pushes
EmittedRecord(branch, l1, l2, ii, jj, old, new) ==
    CASE branch = "context" -> ContextRecord(old, new, l1[ii + 1])
      [] branch = "removed" -> RemovedRecord(old, l1[ii + 1])
      [] branch = "added"   -> AddedRecord(new, l2[jj + 1])

----------------------------------------------------------------------------
(* Context collapser *)

contextLinesNarrower == 3 - 1

contextLinesWider == 3 + 1

contextLines == 3

RECURSIVE findPreviousNonContextIndex(_, _)
\* 0-based index of the nearest non-context record before currentIndex, or -1
findPreviousNonContextIndex(d, currentIndex) ==
    IF currentIndex - 1 < 0 THEN -1
    ELSE IF d[currentIndex].type # "context" THEN currentIndex - 1
         ELSE findPreviousNonContextIndex(d, currentIndex - 1)

RECURSIVE findNextNonContextIndex(_, _)
\* 0-based index of the nearest non-context record after currentIndex, or -1
findNextNonContextIndex(d, currentIndex) ==
    IF currentIndex + 1 >= Len(d) THEN -1
    ELSE IF d[currentIndex + 2].type # "context" THEN currentIndex + 1
         ELSE findNextNonContextIndex(d, currentIndex + 1)

\* as ShouldKeep, without the test prevNonContext >= 0
ShouldKeepNoPrevGuard(d, n) ==
    IF d[n + 1].type # "context" THEN TRUE
    ELSE LET prevNonContext == findPreviousNonContextIndex(d, n)
             nextNonContext == findNextNonContextIndex(d, n)
         IN  \/ (n - prevNonContext <= contextLines)
             \/ (nextNonContext >= 0 /\ nextNonContext - n <= contextLines)

\* as ShouldKeep, without the test nextNonContext >= 0
ShouldKeepNoNextGuard(d, n) ==
    IF d[n + 1].type # "context" THEN TRUE
    ELSE LET prevNonContext == findPreviousNonContextIndex(d, n)
             nextNonContext == findNextNonContextIndex(d, n)
         IN  \/ (prevNonContext >= 0 /\ n - prevNonContext <= contextLines)
             \/ (nextNonContext - n <= contextLines)

\* whether the record at 0-based index n is pushed to the optimized list
ShouldKeep(d, n) ==
    IF d[n + 1].type # "context" THEN TRUE
    ELSE LET prevNonContext == findPreviousNonContextIndex(d, n)
             nextNonContext == findNextNonContextIndex(d, n)
         IN  \/ (prevNonContext >= 0 /\ n - prevNonContext <= contextLines)
             \/ (nextNonContext >= 0 /\ nextNonContext - n <= contextLines)

RECURSIVE OptimizeFrom(_, _)
OptimizeFrom(d, n) ==
    IF n >= Len(d) THEN <<>>
    ELSE (IF ShouldKeep(d, n) THEN <<d[n + 1]>> ELSE <<>>) \o OptimizeFrom(d, n + 1)

\* as optimizeDiffResult, renumbering the old side of the retained records
optimizeDiffResultRenumbered(d) ==
    LET o == OptimizeFrom(d, 0)
    IN  [n \in 1..Len(o) |->
            IF "oldLineNumber" \in DOMAIN o[n]
            THEN [o[n] EXCEPT !.oldLineNumber = n] ELSE o[n]]

optimizeDiffResult(d) == OptimizeFrom(d, 0)

----------------------------------------------------------------------------
(* Stats aggregator *)

RECURSIVE CountType(_, _)
CountType(d, t) ==
    IF d = <<>> THEN 0
    ELSE (IF Head(d).type = t THEN 1 ELSE 0) + CountType(Tail(d), t)

\* as calculateStats, the two counters exchanged
calculateStatsSwapped(d) ==
    LET additions == CountType(d, "removed")
        deletions == CountType(d, "added")
    IN  [additions |-> additions, deletions |-> deletions,
         changes |-> additions + deletions]

\* as calculateStats, every record that is not added counted as a deletion
calculateStatsElse(d) ==
    LET additions == CountType(d, "added")
        deletions == Len(d) - additions
    IN  [additions |-> additions, deletions |-> deletions,
         changes |-> additions + deletions]

calculateStats(d) ==
    LET additions == CountType(d, "added")
        deletions == CountType(d, "removed")
    IN  [additions |-> additions, deletions |-> deletions,
         changes |-> additions + deletions]

----------------------------------------------------------------------------
(* computeTextDiff as a function *)

\* the while loop of computeLineDiff, from the cursors ii, jj, kk on
RECURSIVE ClassifyLoop(_, _, _, _, _, _, _, _, _)
ClassifyLoop(l1, l2, cs, ii, jj, kk, old, new, acc) ==
    IF ~(ii < Len(l1) \/ jj < Len(l2)) THEN acc
    ELSE LET branch == ClassifyBranch(l1, l2, cs, ii, jj, kk)
         IN  IF branch = "none" THEN acc   \* no branch taken: see C14
             ELSE ClassifyLoop(l1, l2, cs,
                      IF branch \in {"context", "removed"} THEN ii + 1 ELSE ii,
                      IF branch \in {"context", "added"} THEN jj + 1 ELSE jj,
                      IF branch = "context" THEN kk + 1 ELSE kk,
                      IF branch \in {"context", "removed"} THEN old + 1 ELSE old,
                      IF branch \in {"context", "added"} THEN new + 1 ELSE new,
                      Append(acc, EmittedRecord(branch, l1, l2, ii, jj, old, new)))

computeLineDiff(l1, l2) ==
    optimizeDiffResult(
        ClassifyLoop(l1, l2, longestCommonSubsequence(l1, l2), 0, 0, 0, 1, 1, <<>>))

\* the DiffResult of two arguments
computeTextDiff(t1, t2) ==
    LET d == computeLineDiff(SplitLines(preprocessText(OrEmpty(t1))),
                             SplitLines(preprocessText(OrEmpty(t2))))
    IN  [lines |-> d, stats |-> calculateStats(d)]

----------------------------------------------------------------------------
(* Inputs *)

LineSeqs == SeqsUpTo({<<"a">>, <<"b">>}, MaxLines)
StyleLineSeqs == SeqsUpTo({<<>>, <<"a">>}, MaxStyleLines)
Texts == SeqsUpTo({"a", CR, LF}, MaxTextLen)

\* documents of up to MaxLines lines, every line ended by LF
LinePairs == {<<Str(Render(A, <<LF>>)), Str(Render(B, <<LF>>))>> : A, B \in LineSeqs}

\* arbitrary short texts, and missing arguments
TextPairs == LET Args == {Str(t) : t \in Texts} \cup {Null, Undefined}
             IN  Args \X Args

\* documents written with each of the three line-break styles
StylePairs == {<<Str(Render(A, s)), Str(Render(B, t))>> :
                   A \in StyleLineSeqs, B \in StyleLineSeqs, s \in LineBreaks, t \in LineBreaks}

\* long documents: an unchanged run of "a" lines between optional "b" lines
RunDoc(x, n, y) == Render(x \o [m \in 1..n |-> <<"a">>] \o y, <<LF>>)
RunPairs == LET Edge == SeqsUpTo({<<"b">>}, 1)
            IN  {<<Str(RunDoc(x1, n, y1)), Str(RunDoc(x2, n, y2))>> :
                     x1 \in Edge, y1 \in Edge, x2 \in Edge, y2 \in Edge, n \in 0..MaxRun}

\* the documents of the worked examples
ExampleABC == <<"a", LF, "b", LF, "c", LF>>
ExampleAXC == <<"a", LF, "x", LF, "c", LF>>
ExampleFoo == <<"f", "o", "o">>
ExampleMarker == <<"{", ":", " ", "i", "d", "=", "\"", "a", "b", "c", "\"", "}">>
ExamplePlain == <<"p", "l", "a", "i", "n", " ", "t", "e", "x", "t">>
ExamplePairs == {<<Str(ExampleABC), Str(ExampleAXC)>>,
                 <<Str(ExampleFoo), Str(ExampleFoo)>>,
                 <<Str(ExampleMarker), Str(ExamplePlain)>>}

\* one-line documents over the characters of a marker, each compared with a
\* marker that lacks its closing brace, and a marker written with a tab
ExampleOpenMarker == <<"{", ":", " ", "{">>
ExampleTabMarker == <<"{", ":", "\t", "}">>
MarkerPairs == {<<Str(l), Str(ExampleOpenMarker)>> :
                    l \in SeqsUpTo({"{", ":", " ", "}"}, MaxMarkerLen)}
               \cup {<<Str(ExampleTabMarker), Str(ExampleOpenMarker)>>}

\* one-line documents that open a marker, after an optional no-break space,
\* and go on over a vertical tab, a paragraph separator, a letter and a
\* closing brace
SeparatorPairs == {<<Str(lead \o <<"{", ":">> \o l), Str(ExampleOpenMarker)>> :
                       lead \in {<<>>, <<NBSP>>},
                       l \in SeqsUpTo({VT, PS, "a", "}"}, MaxTailLen)}

InputPairs == LinePairs \cup TextPairs \cup StylePairs \cup RunPairs \cup ExamplePairs
              \cup MarkerPairs \cup SeparatorPairs

----------------------------------------------------------------------------
(* The plugin: host results, documents and the closure of showDiffDialog *)

UNIFIED == "unified"
SIDE_BY_SIDE == "side-by-side"
DiffViewMode == {UNIFIED, SIDE_BY_SIDE}

\* the two documents selected in the document tree
DocIds == {"A", "B"}
DialogIds == 1..MaxOperations
Handlers == 1..MaxOperations
CallbackNames == {"swapDocuments", "revertChanges", "revertLine",
                  "switchDiffMode", "saveChanges"}

\* the lines joined with '\n'
RECURSIVE JoinLines(_)
JoinLines(ls) ==
    IF ls = <<>> THEN <<>>
    ELSE IF Len(ls) = 1 THEN ls[1]
    ELSE ls[1] \o <<LF>> \o JoinLines(Tail(ls))

\* a run of equal lines longer than the context window
LongText == JoinLines([n \in 1..(contextLines + 2) |-> <<"a">>])

\* the markdown of the two documents when the first comparison is asked for:
\* a long one and a short one
StoredDocuments ==
    {[x \in DocIds |-> IF x = "A" THEN LongText ELSE <<"b", LF, "a", LF>>]}

\* the kramdown the host gives for each document: a line and its attribute
\* line, for B followed by another line and its attribute line
AttributeLine == <<"{", ":", " ", "}">>
HostKramdown ==
    [x \in DocIds |-> IF x = "A" THEN <<"a", LF>> \o AttributeLine
                      ELSE <<"a", LF>> \o AttributeLine \o <<LF, "b", LF>> \o AttributeLine]

\* what a host API call gives back: it throws, returns null, or returns data
HostThrows == [status |-> "throws"]
HostNull == [status |-> "null"]
HostData(data) == [status |-> "ok", data |-> data]
NoReply == [status |-> "none"]

\* a promise of getDocumentInfo
Pending == [status |-> "pending"]
\* a rejected promise carries the message of its error: the one the host
\* threw, or the one getDocumentInfo throws for an empty result
Rejected(message) == [status |-> "rejected", message |-> message]
Resolved(v) == [status |-> "resolved", value |-> v]

\* the block content the host holds as the title of each document
HostTitles == [x \in DocIds |-> IF x = "A" THEN "Doc" ELSE ""]

\* as getDocumentInfo, a null result treated as an empty document
getDocumentInfoNullAsEmpty(docId, format, titleResult, contentResult) ==
    IF titleResult.status = "throws" \/ contentResult.status = "throws"
    THEN Rejected("thrown")
    ELSE Resolved([id |-> docId,
                   title |-> IF titleResult.status = "ok" /\ titleResult.data.content # ""
                             THEN <<titleResult.data.content>>
                             ELSE <<"[U+6587][U+6863] ", docId>>,
                   content |-> IF contentResult.status # "ok" THEN <<>>
                               ELSE IF format = "kramdown"
                                    THEN contentResult.data.kramdown
                                    ELSE contentResult.data.content])

\* getDocumentInfo with the results of its two host calls: every failure is
\* rethrown, so the promise is rejected
getDocumentInfo(docId, format, titleResult, contentResult) ==
    IF titleResult.status = "throws" \/ contentResult.status = "throws"
    THEN Rejected("thrown")
    ELSE IF titleResult.status = "null" \/ contentResult.status = "null"
    THEN Rejected("cannotGetDocInfo")
    ELSE Resolved([id |-> docId,
                   title |-> IF titleResult.data.content # ""
                             THEN <<titleResult.data.content>>
                             ELSE <<"[U+6587][U+6863] ", docId>>,
                   content |-> IF format = "kramdown"
                               THEN contentResult.data.kramdown
                               ELSE contentResult.data.content])

EmptyDiffResult == [lines |-> <<>>, stats |-> [additions |-> 0, deletions |-> 0, changes |-> 0]]
NoDoc == [id |-> "", title |-> <<>>, content |-> <<>>]
NoRendering == [mode |-> UNIFIED, revertButtons |-> {}, saveButton |-> FALSE]

\* the closure of a showDiffDialog call that has not been made
NoDialog == [state |-> "none", currentDoc1 |-> NoDoc, currentDoc2 |-> NoDoc,
             isSwapped |-> FALSE, currentMode |-> UNIFIED,
             currentDiffResult |-> EmptyDiffResult, rendered |-> NoRendering]

\* what the generated markup offers: the 0-based record indices given to the
\* revert buttons of the unified view, and the save button of the two-column view
generateModeSwitchableDiffHtml(doc1, doc2, currentMode) ==
    LET diffResult == computeTextDiff(Str(doc1.content), Str(doc2.content))
        enableLineActions == currentMode = UNIFIED
    IN  [mode |-> currentMode,
         revertButtons |-> IF currentMode = UNIFIED /\ enableLineActions
                           THEN {n - 1 : n \in {m \in 1..Len(diffResult.lines) :
                                                    diffResult.lines[m].type = "added"}}
                           ELSE {},
         saveButton |-> currentMode = SIDE_BY_SIDE]

\* as updateDiffContent, the diff result left as it was
updateDiffContentRenderOnly(c) ==
    [c EXCEPT !.rendered = generateModeSwitchableDiffHtml(
                               c.currentDoc1, c.currentDoc2, c.currentMode)]

updateDiffContent(c) ==
    [c EXCEPT !.currentDiffResult = computeTextDiff(Str(c.currentDoc1.content),
                                                    Str(c.currentDoc2.content)),
              !.rendered = generateModeSwitchableDiffHtml(
                               c.currentDoc1, c.currentDoc2, c.currentMode)]

swapDocuments(c) ==
    updateDiffContent([c EXCEPT !.currentDoc1 = c.currentDoc2,
                                !.currentDoc2 = c.currentDoc1,
                                !.isSwapped = ~c.isSwapped])

\* as switchDiffMode, the documents exchanged as well
switchDiffModeSwapping(c, newMode) ==
    swapDocuments([c EXCEPT !.currentMode = newMode])

switchDiffMode(c, newMode) ==
    updateDiffContent([c EXCEPT !.currentMode = newMode])

\* the closure state when showDiffDialog has created the dialog
showDiffDialog(doc1, doc2) ==
    [state |-> "open", currentDoc1 |-> doc1, currentDoc2 |-> doc2,
     isSwapped |-> FALSE, currentMode |-> UNIFIED,
     currentDiffResult |-> computeTextDiff(Str(doc1.content), Str(doc2.content)),
     rendered |-> generateModeSwitchableDiffHtml(doc1, doc2, UNIFIED)]

\* window after the assignments of showDiffDialog made by dialog d
RegisteredBy(d) == [n \in CallbackNames |-> d]
\* window after the deletes of a destroyCallback
NoCallbacks == [n \in CallbackNames |-> 0]

\* the locals titleResult and contentResult of a getDocumentInfo call that
\* awaits the host
NoResults == [title |-> NoReply, content |-> NoReply]
NoCompare == [pc |-> "idle", docId1 |-> "", docId2 |-> "", format |-> "markdown",
              loadingDialog |-> "none", results |-> <<NoResults, NoResults>>,
              info |-> <<Pending, Pending>>]
NoOperation == [kind |-> "none"]

\* no comparison has been asked for
DialogIdle ==
    /\ store = [x \in DocIds |-> <<>>]
    /\ cmp = [c \in DialogIds |-> NoCompare]
    /\ dialogs = [d \in DialogIds |-> NoDialog]
    /\ window = NoCallbacks
    /\ ops = [h \in Handlers |-> NoOperation]
    /\ started = 0
    /\ shown = <<>>

----------------------------------------------------------------------------
(* computeTextDiff as a state machine *)

NoStats == [additions |-> 0, deletions |-> 0, changes |-> 0]

Init ==
    /\ \E p \in InputPairs : text1 = p[1] /\ text2 = p[2]
    /\ processedText1 = <<>> /\ processedText2 = <<>>
    /\ lines1 = <<>> /\ lines2 = <<>>
    /\ lcs = <<>>
    /\ i = 0 /\ j = 0 /\ k = 0
    /\ oldLineNum = 1 /\ newLineNum = 1
    /\ result = <<>> /\ diff = <<>>
    /\ stats = NoStats
    /\ pc = "preprocess"
    /\ DialogIdle

Preprocess ==
    /\ pc = "preprocess"
    /\ processedText1' = preprocessText(OrEmpty(text1))
    /\ processedText2' = preprocessText(OrEmpty(text2))
    /\ pc' = "split"
    /\ UNCHANGED <<text1, text2, lines1, lines2, lcs, i, j, k,
                   oldLineNum, newLineNum, result, diff, stats>>
    /\ UNCHANGED dialogVars

SplitStep ==
    /\ pc = "split"
    /\ lines1' = SplitLines(processedText1)
    /\ lines2' = SplitLines(processedText2)
    /\ pc' = "lcs"
    /\ UNCHANGED <<text1, text2, processedText1, processedText2, lcs, i, j, k,
                   oldLineNum, newLineNum, result, diff, stats>>
    /\ UNCHANGED dialogVars

\* computeLineDiff up to the loop
Align ==
    /\ pc = "lcs"
    /\ lcs' = longestCommonSubsequence(lines1, lines2)
    /\ i' = 0 /\ j' = 0 /\ k' = 0
    /\ oldLineNum' = 1 /\ newLineNum' = 1
    /\ result' = <<>>
    /\ pc' = "classify"
    /\ UNCHANGED <<text1, text2, processedText1, processedText2, lines1, lines2,
                   diff, stats>>
    /\ UNCHANGED dialogVars

\* one iteration of the while loop of computeLineDiff
ClassifyStep ==
    /\ pc = "classify"
    /\ i < Len(lines1) \/ j < Len(lines2)
    /\ LET branch == ClassifyBranch(lines1, lines2, lcs, i, j, k)
       IN  IF branch = "none"
           THEN UNCHANGED <<i, j, k, oldLineNum, newLineNum, result>>
           ELSE /\ result' = Append(result,
                        EmittedRecord(branch, lines1, lines2, i, j, oldLineNum, newLineNum))
                /\ i' = IF branch \in {"context", "removed"} THEN i + 1 ELSE i
                /\ j' = IF branch \in {"context", "added"} THEN j + 1 ELSE j
                /\ k' = IF branch = "context" THEN k + 1 ELSE k
                /\ oldLineNum' = IF branch \in {"context", "removed"}
                                 THEN oldLineNum + 1 ELSE oldLineNum
                /\ newLineNum' = IF branch \in {"context", "added"}
                                 THEN newLineNum + 1 ELSE newLineNum
    /\ UNCHANGED <<text1, text2, processedText1, processedText2, lines1, lines2,
                   lcs, diff, stats, pc>>
    /\ UNCHANGED dialogVars

\* the loop has ended: return optimizeDiffResult(result)
Optimize ==
    /\ pc = "classify"
    /\ ~(i < Len(lines1) \/ j < Len(lines2))
    /\ diff' = optimizeDiffResult(result)
    /\ pc' = "stats"
    /\ UNCHANGED <<text1, text2, processedText1, processedText2, lines1, lines2,
                   lcs, i, j, k, oldLineNum, newLineNum, result, stats>>
    /\ UNCHANGED dialogVars

Stats ==
    /\ pc = "stats"
    /\ stats' = calculateStats(diff)
    /\ pc' = "done"
    /\ UNCHANGED <<text1, text2, processedText1, processedText2, lines1, lines2,
                   lcs, i, j, k, oldLineNum, newLineNum, result, diff>>
    /\ UNCHANGED dialogVars

Next == Preprocess \/ SplitStep \/ Align \/ ClassifyStep \/ Optimize \/ Stats

Spec == Init /\ [][Next]_vars

----------------------------------------------------------------------------
(* revertLine, saveChanges and revertChanges between their awaits *)

Min(a, b) == IF a < b THEN a ELSE b
MaxOf(S) == CHOOSE n \in S : \A m \in S : m <= n
MinOf(S) == CHOOSE n \in S : \A m \in S : n <= m

\* a number used as a condition: the key is set and its value is not 0
Truthy(r, key) == key \in DOMAIN r /\ r[key] # 0

NoOp == NoOperation
Done(messages) == [op |-> NoOp, shown |-> messages]
Await(o) == [op |-> o, shown |-> <<>>]

\* array with the element at 0-based index n replaced
ReplaceAt(array, n, line) == [array EXCEPT ![n + 1] = line]

\* which branch of revertLine handles the record
RevertBranch(diffLine, lineType) ==
    IF lineType = "added" /\ Truthy(diffLine, "newLineNumber")
                          /\ Truthy(diffLine, "oldLineNumber")
    THEN "modified"
    ELSE IF lineType = "added" /\ Truthy(diffLine, "newLineNumber")
                               /\ ~Truthy(diffLine, "oldLineNumber")
         THEN "inserted"
         ELSE "none"

\* revertLine up to its first await, run by the closure of dialog d
revertLine(d, c, lineIndex, lineType) ==
    IF lineIndex \notin 0..(Len(c.currentDiffResult.lines) - 1)
    THEN Done(<<"error">>)
    ELSE LET diffLine == c.currentDiffResult.lines[lineIndex + 1]
             newDocId == c.currentDoc2.id
             oldDocContent == c.currentDoc1.content
             branch == RevertBranch(diffLine, lineType)
             oldLines == Split(oldDocContent)
         IN  IF \/ branch = "none"
                \/ /\ branch = "modified"
                   /\ diffLine.oldLineNumber - 1 \notin 0..(Len(oldLines) - 1)
             THEN Done(<<>>)
             ELSE Await([kind |-> "revertLine", d |-> d, pc |-> "export",
                         reply |-> NoReply, lineIndex |-> lineIndex,
                         diffLine |-> diffLine, newDocId |-> newDocId,
                         oldDocContent |-> oldDocContent, branch |-> branch])

\* the backward search reads lines[i].oldLineNumber from i = lineIndex - 1
\* down: reading it off a missing element throws
SearchThrows(lines, lineIndex) == lineIndex - 1 >= 0 /\ lineIndex - 1 >= Len(lines)

\* the 0-based index into oldLines of the line that replaces an inserted line
correspondingOldLineIndex(lines, lineIndex, newLineIndex, oldLines) ==
    LET prev == {n \in 0..(lineIndex - 1) : Truthy(lines[n + 1], "oldLineNumber")}
        next == {n \in (lineIndex + 1)..(Len(lines) - 1) :
                     Truthy(lines[n + 1], "oldLineNumber")}
        backward == IF prev # {} THEN lines[MaxOf(prev) + 1].oldLineNumber - 1 ELSE -1
        forward == IF backward # -1 THEN backward
                   ELSE IF next # {}
                        THEN Max(0, lines[MinOf(next) + 1].oldLineNumber - 2)
                        ELSE -1
        mapped == IF forward = -1 THEN Min(newLineIndex, Len(oldLines) - 1) ELSE forward
    IN  Max(0, Min(mapped, Len(oldLines) - 1))

\* as revertLineExported, the old line inserted before the line instead of
\* replacing it
revertLineExportedInserting(c, o) ==
    IF o.reply.status # "ok" THEN Done(<<"error">>)
    ELSE LET newDocCurrentContent == o.reply.data.content
             newLines == Split(newDocCurrentContent)
             newLineIndex == o.diffLine.newLineNumber - 1
             oldLines == Split(o.oldDocContent)
         IN  IF newLineIndex \notin 0..(Len(newLines) - 1) THEN Done(<<>>)
             ELSE IF SearchThrows(c.currentDiffResult.lines, o.lineIndex)
                  THEN Done(<<"error">>)
                  ELSE LET chosen == correspondingOldLineIndex(c.currentDiffResult.lines,
                                         o.lineIndex, newLineIndex, oldLines)
                       IN  Await([kind |-> "revertLine", d |-> o.d, pc |-> "update",
                                  reply |-> NoReply, lineIndex |-> o.lineIndex,
                                  diffLine |-> o.diffLine, newDocId |-> o.newDocId,
                                  oldDocContent |-> o.oldDocContent,
                                  newDocCurrentContent |-> newDocCurrentContent,
                                  correspondingOldLineIndex |-> chosen,
                                  titleResult |-> NoReply,
                                  updatedContent |-> JoinLines(
                                      SubSeq(newLines, 1, newLineIndex)
                                      \o <<oldLines[chosen + 1]>>
                                      \o SubSeq(newLines, newLineIndex + 1, Len(newLines)))])

\* revertLine from the reply of exportMdContent to its next await; c is the
\* closure state when the reply is handled
revertLineExported(c, o) ==
    IF o.reply.status # "ok" THEN Done(<<"error">>)
    ELSE LET newDocCurrentContent == o.reply.data.content
             newLines == Split(newDocCurrentContent)
             newLineIndex == o.diffLine.newLineNumber - 1
             oldLines == Split(o.oldDocContent)
         IN  IF newLineIndex \notin 0..(Len(newLines) - 1) THEN Done(<<>>)
             ELSE IF o.branch = "inserted"
                     /\ SearchThrows(c.currentDiffResult.lines, o.lineIndex)
                  THEN Done(<<"error">>)
                  ELSE LET chosen ==
                               IF o.branch = "modified" THEN o.diffLine.oldLineNumber - 1
                               ELSE correspondingOldLineIndex(c.currentDiffResult.lines,
                                        o.lineIndex, newLineIndex, oldLines)
                           oldLineContent == IF chosen < Len(oldLines)
                                             THEN oldLines[chosen + 1] ELSE <<>>
                       IN  Await([kind |-> "revertLine", d |-> o.d, pc |-> "update",
                                  reply |-> NoReply, lineIndex |-> o.lineIndex,
                                  diffLine |-> o.diffLine, newDocId |-> o.newDocId,
                                  oldDocContent |-> o.oldDocContent,
                                  newDocCurrentContent |-> newDocCurrentContent,
                                  correspondingOldLineIndex |-> chosen,
                                  titleResult |-> NoReply,
                                  updatedContent |-> JoinLines(
                                      ReplaceAt(newLines, newLineIndex, oldLineContent))])

\* as revertLineUpdated, the success message shown whatever updateBlock did
revertLineUpdatedAlwaysSuccess(c, o) ==
    [op |-> [o EXCEPT !.pc = "info", !.reply = NoReply], shown |-> <<"success">>]

\* revertLine from the reply of updateBlock to the first await of
\* getDocumentInfo
revertLineUpdated(c, o) ==
    IF o.reply.status = "throws" THEN Done(<<"error">>)
    ELSE [op |-> [o EXCEPT !.pc = "info", !.reply = NoReply], shown |-> <<"success">>]

\* the line text read from one .side-line-content element
SideLineText(textContent) ==
    IF textContent = <<NBSP>> \/ Trim(textContent) = <<>> THEN <<>> ELSE textContent

\* saveChanges up to the confirm dialog; sideLines are the texts of the
\* .side-line-content elements of the right pane
saveChanges(d, c, sideLines) ==
    IF c.currentMode # SIDE_BY_SIDE THEN Done(<<"error">>)
    ELSE IF c.rendered.mode # SIDE_BY_SIDE THEN Done(<<"error">>)
    ELSE Await([kind |-> "saveChanges", d |-> d, pc |-> "confirm", reply |-> NoReply,
                newContent |-> JoinLines([n \in 1..Len(sideLines) |->
                                              SideLineText(sideLines[n])])])

\* the confirm callback of saveChanges up to its first await
saveChangesConfirmed(c, o) ==
    Await([kind |-> "saveChanges", d |-> o.d, pc |-> "update", reply |-> NoReply,
           newContent |-> o.newContent, targetDocId |-> c.currentDoc2.id,
           titleResult |-> NoReply])

saveChangesUpdated(c, o) ==
    IF o.reply.status = "throws" THEN Done(<<"error">>)
    ELSE [op |-> [o EXCEPT !.pc = "info", !.reply = NoReply], shown |-> <<"success">>]

\* revertChanges up to the confirm dialog
revertChanges(d, c) ==
    Await([kind |-> "revertChanges", d |-> d, pc |-> "confirm", reply |-> NoReply])

\* the confirm callback of revertChanges up to its await
revertChangesConfirmed(c, o) ==
    Await([kind |-> "revertChanges", d |-> o.d, pc |-> "update", reply |-> NoReply,
           newDocId |-> c.currentDoc2.id, oldDocContent |-> c.currentDoc1.content])

\* the document and the markdown an operation passes to updateBlock
UpdateTarget(o) ==
    CASE o.kind = "revertLine"    -> o.newDocId
      [] o.kind = "saveChanges"   -> o.targetDocId
      [] o.kind = "revertChanges" -> o.newDocId
UpdateData(o) ==
    CASE o.kind = "revertLine"    -> o.updatedContent
      [] o.kind = "saveChanges"   -> o.newContent
      [] o.kind = "revertChanges" -> o.oldDocContent
\* the document an operation refreshes with getDocumentInfo
RefreshTarget(o) ==
    CASE o.kind = "revertLine"  -> o.newDocId
      [] o.kind = "saveChanges" -> o.targetDocId

\* the results the host can give for the title and the content of a document
TitleResults(docId) == {HostThrows, HostNull, HostData([content |-> HostTitles[docId]])}
ContentResults(docId, format) ==
    {HostThrows, HostNull}
    \cup (IF format = "kramdown"
          THEN {HostData([kramdown |-> HostKramdown[docId]])}
          ELSE {HostData([content |-> store[docId]])})

\* the lines of the right pane when the user saves: none, or a line followed
\* by an empty line as rendered (a no-break space) and a line of blanks
SideLineInputs == {<<>>, <<<<"a">>, <<NBSP>>, <<" ">>>>}

----------------------------------------------------------------------------
(* The plugin as a state machine *)

\* computeTextDiff is not running
CoreIdle ==
    /\ text1 = Str(<<>>) /\ text2 = Str(<<>>)
    /\ processedText1 = <<>> /\ processedText2 = <<>>
    /\ lines1 = <<>> /\ lines2 = <<>>
    /\ lcs = <<>>
    /\ i = 0 /\ j = 0 /\ k = 0
    /\ oldLineNum = 1 /\ newLineNum = 1
    /\ result = <<>> /\ diff = <<>>
    /\ stats = NoStats
    /\ pc = "idle"

\* the host holds two documents; nothing has been compared
DialogInit ==
    /\ CoreIdle
    /\ store \in StoredDocuments
    /\ cmp = [c \in DialogIds |-> NoCompare]
    /\ dialogs = [d \in DialogIds |-> NoDialog]
    /\ window = NoCallbacks
    /\ ops = [h \in Handlers |-> NoOp]
    /\ started = 0
    /\ shown = <<>>

\* the ids compareDocuments can be called with: a document, or no id
CompareIds == DocIds \cup {""}

\* compareDocuments calls made so far
Compared == Cardinality({c \in DialogIds : cmp[c].pc # "idle"})

\* every reply that has arrived has been handled: a continuation runs in the
\* task that delivers its reply, before any further user event
Settled ==
    /\ \A h \in Handlers : ops[h].kind # "none" => ops[h].reply.status = "none"
    /\ \A c \in DialogIds :
           cmp[c].pc = "loading"
               => /\ \A n \in 1..2 : cmp[c].info[n].status # "rejected"
                  /\ \E n \in 1..2 : cmp[c].info[n].status # "resolved"

\* a menu item is clicked, or compareDocuments is called with a missing id:
\* compareDocuments up to its return or its await
compareDocuments(docId1, docId2, format) ==
    /\ Settled
    /\ Compared + started < MaxOperations
    /\ IF docId1 = "" \/ docId2 = ""
       THEN /\ cmp' = [cmp EXCEPT ![Compared + 1] =
                           [NoCompare EXCEPT !.pc = "invalid", !.docId1 = docId1,
                                             !.docId2 = docId2, !.format = format]]
            /\ shown' = <<"error">>
       ELSE /\ cmp' = [cmp EXCEPT ![Compared + 1] =
                           [pc |-> "loading", docId1 |-> docId1, docId2 |-> docId2,
                            format |-> format, loadingDialog |-> "open",
                            results |-> <<NoResults, NoResults>>,
                            info |-> <<Pending, Pending>>]]
            /\ shown' = <<>>
    /\ UNCHANGED <<coreVars, started, store, dialogs, window, ops>>

\* the document of the n-th getDocumentInfo call of a comparison
ComparedDoc(c, n) == IF n = 1 THEN cmp[c].docId1 ELSE cmp[c].docId2

\* the host answers getBlockByID of the n-th getDocumentInfo call of
\* comparison c: getDocumentInfo rethrows, or asks for the content
CompareTitleReplies(c, n) ==
    /\ cmp[c].pc \in {"loading", "failed"}
    /\ cmp[c].info[n].status = "pending"
    /\ cmp[c].results[n].title.status = "none"
    /\ \E titleResult \in TitleResults(ComparedDoc(c, n)) :
           cmp' = [cmp EXCEPT
                      ![c].results[n].title = IF titleResult.status = "throws"
                                              THEN @ ELSE titleResult,
                      ![c].info[n] = IF titleResult.status = "throws"
                                     THEN getDocumentInfo(ComparedDoc(c, n), cmp[c].format,
                                                          titleResult, NoReply)
                                     ELSE @]
    /\ shown' = <<>>
    /\ UNCHANGED <<coreVars, started, store, dialogs, window, ops>>

\* the host answers getBlockKramdown or exportMdContent of the n-th
\* getDocumentInfo call of comparison c: the call settles
CompareInfoSettles(c, n) ==
    /\ cmp[c].pc \in {"loading", "failed"}
    /\ cmp[c].info[n].status = "pending"
    /\ cmp[c].results[n].title.status # "none"
    /\ \E contentResult \in ContentResults(ComparedDoc(c, n), cmp[c].format) :
           cmp' = [cmp EXCEPT
                      ![c].results[n] = NoResults,
                      ![c].info[n] = getDocumentInfo(ComparedDoc(c, n), cmp[c].format,
                                                     cmp[c].results[n].title, contentResult)]
    /\ shown' = <<>>
    /\ UNCHANGED <<coreVars, started, store, dialogs, window, ops>>

\* Promise.all has rejected: the catch block of compareDocuments
CompareFails(c) ==
    /\ cmp[c].pc = "loading"
    /\ \E n \in 1..2 : cmp[c].info[n].status = "rejected"
    /\ cmp' = [cmp EXCEPT ![c].pc = "failed",
                          ![c].loadingDialog = IF cmp[c].loadingDialog = "open"
                                               THEN "destroyed" ELSE @]
    /\ shown' = <<"error">>
    /\ UNCHANGED <<coreVars, started, store, dialogs, window, ops>>

\* Promise.all has resolved: the loading dialog goes and showDiffDialog runs
CompareShows(c) ==
    /\ cmp[c].pc = "loading"
    /\ \A n \in 1..2 : cmp[c].info[n].status = "resolved"
    /\ cmp' = [cmp EXCEPT ![c].pc = "opened", ![c].loadingDialog = "destroyed"]
    /\ dialogs' = [dialogs EXCEPT ![c] = showDiffDialog(cmp[c].info[1].value,
                                                        cmp[c].info[2].value)]
    /\ window' = RegisteredBy(c)
    /\ shown' = <<>>
    /\ UNCHANGED <<coreVars, started, store, ops>>

\* the buttons of dialog d can be clicked
Interactive(d) ==
    /\ dialogs[d].state = "open"
    /\ Settled

\* the swap button: onclick="swapDocuments()"
ClickSwap(d) ==
    /\ Interactive(d)
    /\ window.swapDocuments # 0
    /\ dialogs' = [dialogs EXCEPT ![window.swapDocuments] = swapDocuments(@)]
    /\ shown' = <<>>
    /\ UNCHANGED <<coreVars, started, store, cmp, window, ops>>

\* a mode button: onclick="switchDiffMode('<mode>')"
ClickMode(d, newMode) ==
    /\ Interactive(d)
    /\ window.switchDiffMode # 0
    /\ dialogs' = [dialogs EXCEPT ![window.switchDiffMode] = switchDiffMode(@, newMode)]
    /\ shown' = <<>>
    /\ UNCHANGED <<coreVars, started, store, cmp, window, ops>>

\* the dialog is closed by the user: its destroyCallback
ClickClose(d) ==
    /\ Interactive(d)
    /\ dialogs' = [dialogs EXCEPT ![d].state = "destroyed"]
    /\ window' = NoCallbacks
    /\ shown' = <<>>
    /\ UNCHANGED <<coreVars, started, store, cmp, ops>>

\* a revert button of the unified view:
\* onclick="window.revertLine && window.revertLine(i, 'added')"
ClickRevertLine(d, lineIndex) ==
    /\ Interactive(d) /\ Compared + started < MaxOperations
    /\ lineIndex \in dialogs[d].rendered.revertButtons
    /\ window.revertLine # 0
    /\ LET r == revertLine(window.revertLine, dialogs[window.revertLine],
                           lineIndex, "added")
       IN  /\ ops' = [ops EXCEPT ![started + 1] = r.op]
           /\ shown' = r.shown
           /\ started' = started + 1
    /\ UNCHANGED <<coreVars, store, cmp, dialogs, window>>

\* the save button of the two-column view: onclick="saveChanges()"
ClickSave(d, sideLines) ==
    /\ Interactive(d) /\ Compared + started < MaxOperations
    /\ dialogs[d].rendered.saveButton
    /\ window.saveChanges # 0
    /\ LET r == saveChanges(window.saveChanges, dialogs[window.saveChanges], sideLines)
       IN  /\ ops' = [ops EXCEPT ![started + 1] = r.op]
           /\ shown' = r.shown
           /\ started' = started + 1
    /\ UNCHANGED <<coreVars, store, cmp, dialogs, window>>

\* the revert button of the header: onclick="revertChanges()"
ClickRevertChanges(d) ==
    /\ Interactive(d) /\ Compared + started < MaxOperations
    /\ window.revertChanges # 0
    /\ LET r == revertChanges(window.revertChanges, dialogs[window.revertChanges])
       IN  /\ ops' = [ops EXCEPT ![started + 1] = r.op]
           /\ shown' = r.shown
           /\ started' = started + 1
    /\ UNCHANGED <<coreVars, store, cmp, dialogs, window>>

\* the user confirms: the callback given to confirm() runs up to its await
Confirmed(h) ==
    /\ Settled
    /\ ops[h].kind # "none" /\ ops[h].pc = "confirm"
    /\ LET r == IF ops[h].kind = "saveChanges"
                THEN saveChangesConfirmed(dialogs[ops[h].d], ops[h])
                ELSE revertChangesConfirmed(dialogs[ops[h].d], ops[h])
       IN  ops' = [ops EXCEPT ![h] = r.op] /\ shown' = r.shown
    /\ UNCHANGED <<coreVars, started, store, cmp, dialogs, window>>

\* the user cancels the confirm dialog
Cancelled(h) ==
    /\ Settled
    /\ ops[h].kind # "none" /\ ops[h].pc = "confirm"
    /\ ops' = [ops EXCEPT ![h] = NoOp]
    /\ shown' = <<>>
    /\ UNCHANGED <<coreVars, started, store, cmp, dialogs, window>>

\* the host answers exportMdContent(newDocId)
HostExportMdContent(h) ==
    /\ ops[h].kind = "revertLine" /\ ops[h].pc = "export" /\ ops[h].reply.status = "none"
    /\ \E r \in {HostThrows, HostNull, HostData([content |-> store[ops[h].newDocId]])} :
           ops' = [ops EXCEPT ![h].reply = r]
    /\ shown' = <<>>
    /\ UNCHANGED <<coreVars, started, store, cmp, dialogs, window>>

\* the host answers updateBlock("markdown", data, id): it stores the markdown
\* or throws
HostUpdateBlock(h) ==
    /\ ops[h].kind # "none" /\ ops[h].pc = "update" /\ ops[h].reply.status = "none"
    /\ \/ /\ store' = [store EXCEPT ![UpdateTarget(ops[h])] = UpdateData(ops[h])]
          /\ ops' = [ops EXCEPT ![h].reply = HostData(<<>>)]
       \/ /\ ops' = [ops EXCEPT ![h].reply = HostThrows]
          /\ UNCHANGED store
    /\ shown' = <<>>
    /\ UNCHANGED <<coreVars, started, cmp, dialogs, window>>

\* the host answers getBlockByID of the getDocumentInfo(id, 'markdown') of a
\* refresh: getDocumentInfo rethrows, or asks for the content
RefreshTitleReplies(h) ==
    /\ ops[h].kind # "none" /\ ops[h].pc = "info" /\ ops[h].reply.status = "none"
    /\ ops[h].titleResult.status = "none"
    /\ \E titleResult \in TitleResults(RefreshTarget(ops[h])) :
           ops' = [ops EXCEPT
                      ![h].titleResult = titleResult,
                      ![h].reply = IF titleResult.status = "throws"
                                   THEN getDocumentInfo(RefreshTarget(ops[h]), "markdown",
                                                        titleResult, NoReply)
                                   ELSE @]
    /\ shown' = <<>>
    /\ UNCHANGED <<coreVars, started, store, cmp, dialogs, window>>

\* the host answers exportMdContent of the getDocumentInfo of a refresh: the
\* call settles
RefreshInfoSettles(h) ==
    /\ ops[h].kind # "none" /\ ops[h].pc = "info" /\ ops[h].reply.status = "none"
    /\ ops[h].titleResult.status # "none"
    /\ \E contentResult \in ContentResults(RefreshTarget(ops[h]), "markdown") :
           ops' = [ops EXCEPT ![h].reply =
                       getDocumentInfo(RefreshTarget(ops[h]), "markdown",
                                       ops[h].titleResult, contentResult)]
    /\ shown' = <<>>
    /\ UNCHANGED <<coreVars, started, store, cmp, dialogs, window>>

\* revertLine resumes after exportMdContent
RevertLineExported(h) ==
    /\ ops[h].kind = "revertLine" /\ ops[h].pc = "export" /\ ops[h].reply.status # "none"
    /\ LET r == revertLineExported(dialogs[ops[h].d], ops[h])
       IN  ops' = [ops EXCEPT ![h] = r.op] /\ shown' = r.shown
    /\ UNCHANGED <<coreVars, started, store, cmp, dialogs, window>>

\* revertLine resumes after updateBlock
RevertLineUpdated(h) ==
    /\ ops[h].kind = "revertLine" /\ ops[h].pc = "update" /\ ops[h].reply.status # "none"
    /\ LET r == revertLineUpdated(dialogs[ops[h].d], ops[h])
       IN  ops' = [ops EXCEPT ![h] = r.op] /\ shown' = r.shown
    /\ UNCHANGED <<coreVars, started, store, cmp, dialogs, window>>

\* the confirm callback of saveChanges resumes after updateBlock
SaveChangesUpdated(h) ==
    /\ ops[h].kind = "saveChanges" /\ ops[h].pc = "update" /\ ops[h].reply.status # "none"
    /\ LET r == saveChangesUpdated(dialogs[ops[h].d], ops[h])
       IN  ops' = [ops EXCEPT ![h] = r.op] /\ shown' = r.shown
    /\ UNCHANGED <<coreVars, started, store, cmp, dialogs, window>>

\* the closure after a refresh: currentDoc2 = updatedDocInfo; updateDiffContent()
Refreshed(c, o) ==
    IF o.reply.status = "rejected" THEN c
    ELSE updateDiffContent([c EXCEPT !.currentDoc2 = o.reply.value])

\* revertLine or the confirm callback of saveChanges resumes after
\* getDocumentInfo
RefreshDone(h) ==
    /\ ops[h].kind # "none" /\ ops[h].pc = "info" /\ ops[h].reply.status # "none"
    /\ dialogs' = [dialogs EXCEPT ![ops[h].d] = Refreshed(@, ops[h])]
    /\ ops' = [ops EXCEPT ![h] = NoOp]
    /\ shown' = IF ops[h].reply.status = "rejected" THEN <<"error">> ELSE <<>>
    /\ UNCHANGED <<coreVars, started, store, cmp, window>>

\* the confirm callback of revertChanges resumes after updateBlock: on
\* success the dialog is destroyed, and with it the callbacks on window
RevertChangesUpdated(h) ==
    /\ ops[h].kind = "revertChanges" /\ ops[h].pc = "update"
    /\ ops[h].reply.status # "none"
    /\ IF ops[h].reply.status = "throws"
       THEN /\ shown' = <<"error">>
            /\ UNCHANGED <<dialogs, window>>
       ELSE /\ shown' = <<"success">>
            /\ dialogs' = [dialogs EXCEPT ![ops[h].d].state = "destroyed"]
            /\ window' = NoCallbacks
    /\ ops' = [ops EXCEPT ![h] = NoOp]
    /\ UNCHANGED <<coreVars, started, store, cmp>>

DialogNext ==
    \/ \E docId1, docId2 \in CompareIds, format \in {"markdown", "kramdown"} :
           compareDocuments(docId1, docId2, format)
    \/ \E c \in DialogIds, n \in 1..2 : CompareTitleReplies(c, n)
    \/ \E c \in DialogIds, n \in 1..2 : CompareInfoSettles(c, n)
    \/ \E c \in DialogIds : CompareFails(c)
    \/ \E c \in DialogIds : CompareShows(c)
    \/ \E d \in DialogIds : ClickSwap(d)
    \/ \E d \in DialogIds, newMode \in DiffViewMode : ClickMode(d, newMode)
    \/ \E d \in DialogIds : ClickClose(d)
    \/ \E d \in DialogIds : \E lineIndex \in dialogs[d].rendered.revertButtons :
           ClickRevertLine(d, lineIndex)
    \/ \E d \in DialogIds, sideLines \in SideLineInputs : ClickSave(d, sideLines)
    \/ \E d \in DialogIds : ClickRevertChanges(d)
    \/ \E h \in Handlers : Confirmed(h)
    \/ \E h \in Handlers : Cancelled(h)
    \/ \E h \in Handlers : HostExportMdContent(h)
    \/ \E h \in Handlers : HostUpdateBlock(h)
    \/ \E h \in Handlers : RefreshTitleReplies(h)
    \/ \E h \in Handlers : RefreshInfoSettles(h)
    \/ \E h \in Handlers : RevertLineExported(h)
    \/ \E h \in Handlers : RevertLineUpdated(h)
    \/ \E h \in Handlers : SaveChangesUpdated(h)
    \/ \E h \in Handlers : RefreshDone(h)
    \/ \E h \in Handlers : RevertChangesUpdated(h)

DialogSpec == DialogInit /\ [][DialogNext]_vars

----------------------------------------------------------------------------
(* Vocabulary of the properties *)

Range(f) == {f[n] : n \in DOMAIN f}

Contents(d) == [n \in 1..Len(d) |-> d[n].content]

IsOldSide(r) == r.type \in {"removed", "context"}
IsNewSide(r) == r.type \in {"added", "context"}
IsChange(r) == r.type \in {"added", "removed"}

\* s can be obtained from t by deleting elements
RECURSIVE IsSubseq(_, _)
IsSubseq(s, t) ==
    IF s = <<>> THEN TRUE
    ELSE IF t = <<>> THEN FALSE
    ELSE IF Head(s) = Head(t) THEN IsSubseq(Tail(s), Tail(t))
    ELSE IsSubseq(s, Tail(t))

\* the elements of t at the positions I, in order
RECURSIVE PickFrom(_, _, _)
PickFrom(t, I, n) ==
    IF n > Len(t) THEN <<>>
    ELSE (IF n \in I THEN <<t[n]>> ELSE <<>>) \o PickFrom(t, I, n + 1)

\* brute force: the lengths of all common subsequences of a and b
CommonSubseqLengths(a, b) ==
    {Cardinality(I) : I \in {J \in SUBSET (1..Len(a)) : IsSubseq(PickFrom(a, J, 1), b)}}

ZeroStats == [additions |-> 0, deletions |-> 0, changes |-> 0]

IsMissing(v) == v.kind \in {"null", "undefined"} \/ v.val = <<>>

\* the state right after longestCommonSubsequence has returned
Aligned == pc = "classify" /\ result = <<>> /\ i = 0 /\ j = 0
\* the classifier's loop has ended, result is the full record list
Classified == pc \in {"stats", "done"}
\* the collapser has returned
Collapsed == pc \in {"stats", "done"}
Returned == pc = "done"

\* the lines joined with single LFs
RECURSIVE JoinLF(_)
JoinLF(ls) ==
    IF ls = <<>> THEN <<>>
    ELSE IF Len(ls) = 1 THEN ls[1]
    ELSE ls[1] \o <<LF>> \o JoinLF(Tail(ls))

\* s with the LF of every CR LF pair left out
RECURSIVE DropPairedLF(_, _)
DropPairedLF(s, n) ==
    IF n > Len(s) THEN <<>>
    ELSE (IF s[n] = LF /\ n > 1 /\ s[n - 1] = CR THEN <<>> ELSE <<s[n]>>)
         \o DropPairedLF(s, n + 1)

\* the line-ending-normalized form of a non-empty text: CR LF and CR replaced
\* by LF, and a trailing LF ensured
NormalForm(s) ==
    LET d == DropPairedLF(s, 1)
        u == [n \in 1..Len(d) |-> IF d[n] = CR THEN LF ELSE d[n]]
    IN  IF u[Len(u)] = LF THEN u ELSE u \o <<LF>>

\* joining the lines of the argument v gives back its normalized form
Rejoins(v, ls) ==
    IF v.kind = "string" /\ v.val # <<>>
    THEN JoinLF(ls) \o <<LF>> = NormalForm(v.val)
    ELSE JoinLF(ls) = <<>>

\* brute force: the length of the longest common subsequence of the first ii
\* elements of a and the first jj elements of b
RefLen(a, b, ii, jj) ==
    LET S == CommonSubseqLengths(SubSeq(a, 1, ii), SubSeq(b, 1, jj))
    IN  CHOOSE n \in S : \A m \in S : m <= n

\* the common subsequence selected by walking back from (ii, jj): a match is
\* taken; otherwise the walk goes to the neighbour with the longer common
\* subsequence, and on a tie it decrements the index named by tie ("i": the
\* first sequence's, "j": the second sequence's)
RECURSIVE RefWalk(_, _, _, _, _)
RefWalk(a, b, ii, jj, tie) ==
    IF ii = 0 \/ jj = 0 THEN <<>>
    ELSE IF a[ii] = b[jj] THEN Append(RefWalk(a, b, ii - 1, jj - 1, tie), a[ii])
    ELSE LET up == RefLen(a, b, ii - 1, jj)
             left == RefLen(a, b, ii, jj - 1)
         IN  IF up > left \/ (up = left /\ tie = "i")
             THEN RefWalk(a, b, ii - 1, jj, tie)
             ELSE RefWalk(a, b, ii, jj - 1, tie)

\* k empty lines
Blank(kk) == [n \in 1..kk |-> <<>>]

\* the argument v consists solely of line breaks of one style, and then ls
\* holds one empty line per line break
BlankDocument(v, ls) ==
    v.kind = "string" =>
        \A s \in LineBreaks : \A kk \in 1..Len(v.val) :
            v.val = Render(Blank(kk), s) => ls = Blank(kk)

\* every LF of the processed text p ends one entry of ls, and every LF that
\* starts p or follows another LF gives an empty entry
BlankLinesKept(p, ls) ==
    /\ Len(ls) = Cardinality({n \in 1..Len(p) : p[n] = LF})
    /\ Cardinality({n \in 1..Len(ls) : ls[n] = <<>>})
           = Cardinality({n \in 1..Len(p) : p[n] = LF /\ (n = 1 \/ p[n - 1] = LF)})

\* the blank characters a line can hold: the white space of JavaScript
\* without the two line breaks a line never holds
Blanks == {" ", "\t", "\f", "U+000B", "U+00A0", "U+1680", "U+2000", "U+2001",
           "U+2002", "U+2003", "U+2004", "U+2005", "U+2006", "U+2007", "U+2008",
           "U+2009", "U+200A", "U+2028", "U+2029", "U+202F", "U+205F", "U+3000",
           "U+FEFF"}

\* the blank characters that also end a line for a regular expression
Separators == {"U+2028", "U+2029"}

\* c without its leading and trailing blanks
Trimmed(c) ==
    LET inked == {n \in 1..Len(c) : c[n] \notin Blanks}
    IN  IF inked = {} THEN <<>>
        ELSE SubSeq(c, CHOOSE n \in inked : \A m \in inked : n <= m,
                       CHOOSE n \in inked : \A m \in inked : m <= n)

\* the trimmed line is "{:", one or more spaces, then anything
OpenMarker(c) ==
    LET t == Trimmed(c)
    IN  Len(t) >= 3 /\ t[1] = "{" /\ t[2] = ":" /\ t[3] = " "

\* the trimmed line is "{:", a run of blanks, then characters that are not
\* separators up to a closing brace: a separator before the brace lies in
\* the run of blanks
BraceMarker(c) ==
    LET t == Trimmed(c)
    IN  /\ Len(t) >= 4 /\ t[1] = "{" /\ t[2] = ":" /\ t[3] \in Blanks
        /\ \E p \in 4..Len(t) :
               /\ t[p] = "}"
               /\ \A n \in 4..(p - 1) :
                      t[n] \in Separators => \A m \in 3..n : t[m] \in Blanks

----------------------------------------------------------------------------
(* Properties *)

\* C1: when the classifier's loop has ended, the contents of the removed and
\* context records of the full list, in order, are exactly lines1, and the
\* contents of the added and context records, in order, are exactly lines2.
C1_Reconstructs ==
    Classified =>
        /\ Contents(SelectSeq(result, IsOldSide)) = lines1
        /\ Contents(SelectSeq(result, IsNewSide)) = lines2

C1_Witness ==
    /\ Classified
    /\ \E a, b, c \in 1..Len(result) :
          /\ a < b /\ b < c
          /\ result[a].type = "context" /\ IsChange(result[b]) /\ result[c].type = "context"
    /\ \E n \in 1..Len(result) : result[n].type = "added"
    /\ \E n \in 1..Len(result) : result[n].type = "removed"

\* C2: the sequence longestCommonSubsequence returns is an order-preserving
\* subsequence of both inputs, and no common subsequence is longer (brute
\* force over every subsequence of the first input).
C2_LcsIsLongest ==
    Aligned =>
        /\ IsSubseq(lcs, lines1)
        /\ IsSubseq(lcs, lines2)
        /\ \A n \in CommonSubseqLengths(lines1, lines2) : n <= Len(lcs)

C2_Witness ==
    /\ Aligned
    /\ Len(lcs) >= 2 /\ Len(lcs) < Len(lines1) /\ Len(lcs) < Len(lines2)
    /\ \E n \in 1..(Len(lcs) - 1) : lcs[n] # lcs[n + 1]

\* C3: every returned record carries the line numbers of its type: a context
\* record both, a removed record only the old one, an added record only the
\* new one.
C3_NumbersMatchType ==
    Returned =>
        \A n \in 1..Len(diff) :
            /\ diff[n].type \in {"context", "removed", "added"}
            /\ diff[n].type = "context" => HasOld(diff[n]) /\ HasNew(diff[n])
            /\ diff[n].type = "removed" => HasOld(diff[n]) /\ ~HasNew(diff[n])
            /\ diff[n].type = "added" => HasNew(diff[n]) /\ ~HasOld(diff[n])

C3_Witness ==
    /\ Returned
    /\ \E a, b, c \in 1..Len(diff) :
          diff[a].type = "context" /\ diff[b].type = "removed" /\ diff[c].type = "added"

\* C4: in the full record list the old line numbers of the records that have
\* one are strictly increasing in list order, and so are the new line numbers.
C4_NumbersIncrease ==
    \A m, n \in 1..Len(result) :
        m < n =>
            /\ HasOld(result[m]) /\ HasOld(result[n])
                  => result[m].oldLineNumber < result[n].oldLineNumber
            /\ HasNew(result[m]) /\ HasNew(result[n])
                  => result[m].newLineNumber < result[n].newLineNumber

C4_Witness ==
    /\ Classified
    /\ \E a, b, c, e \in 1..Len(result) :
          /\ a < b /\ b < c /\ c < e
          /\ result[a].type = "removed" /\ result[b].type = "added"
          /\ result[c].type = "removed" /\ result[e].type = "added"

\* C5: the collapser keeps every added and every removed record, and every
\* context record it keeps has an added or removed record at most 3
\* positions before or after it in the full list.
C5_CollapseWindow ==
    Collapsed =>
        /\ SelectSeq(diff, IsChange) = SelectSeq(result, IsChange)
        /\ \A n \in 1..Len(result) :
              (result[n].type = "context" /\ result[n] \in Range(diff))
                  => \E m \in 1..Len(result) :
                        /\ IsChange(result[m])
                        /\ m - n <= 3 /\ n - m <= 3

\* a context record between two changes, more than 3 positions from both, is
\* dropped while its neighbours inside the windows are kept
C5_Witness ==
    /\ Collapsed
    /\ \E a, b, c \in 1..Len(result) :
          /\ IsChange(result[a]) /\ IsChange(result[c])
          /\ b - a > 3 /\ c - b > 3
          /\ \A n \in (a + 1)..(c - 1) : result[n].type = "context"
          /\ result[b] \notin Range(diff)
          /\ result[a + 3] \in Range(diff) /\ result[c - 3] \in Range(diff)

\* C6: the collapsed list is a subsequence of the full list with the records
\* as they were, so a returned record with old line number n holds line n of
\* the normalized old document and one with new line number n holds line n of
\* the normalized new document.
C6_PureFilter ==
    Collapsed =>
        /\ IsSubseq(diff, result)
        /\ \A n \in 1..Len(diff) :
              /\ HasOld(diff[n]) =>
                    /\ diff[n].oldLineNumber \in 1..Len(lines1)
                    /\ diff[n].content = lines1[diff[n].oldLineNumber]
              /\ HasNew(diff[n]) =>
                    /\ diff[n].newLineNumber \in 1..Len(lines2)
                    /\ diff[n].content = lines2[diff[n].newLineNumber]

\* records are dropped in front of retained ones, whose numbers then differ
\* from their positions
C6_Witness ==
    /\ Collapsed
    /\ Len(diff) < Len(result)
    /\ \E n \in 1..Len(diff) :
          /\ diff[n].type = "context"
          /\ diff[n].oldLineNumber > n /\ diff[n].newLineNumber > n

\* C7: in the result, additions is the number of added records of the
\* returned list, deletions the number of its removed records, and changes
\* their sum.
C7_StatsCountReturned ==
    Returned =>
        /\ stats.additions = Cardinality({n \in 1..Len(diff) : diff[n].type = "added"})
        /\ stats.deletions = Cardinality({n \in 1..Len(diff) : diff[n].type = "removed"})
        /\ stats.changes = stats.additions + stats.deletions

C7_Witness ==
    /\ Returned
    /\ stats.additions >= 2 /\ stats.deletions >= 1
    /\ stats.additions # stats.deletions
    /\ \E n \in 1..Len(diff) : diff[n].type = "context"

\* C8: a text compared with itself yields no added and no removed record and
\* the stats 0, 0, 0.
C8_SelfDiff ==
    (Returned /\ text1 = text2) =>
        /\ \A n \in 1..Len(diff) : ~IsChange(diff[n])
        /\ \A n \in 1..Len(result) : ~IsChange(result[n])
        /\ stats = ZeroStats

C8_Witness ==
    /\ Returned /\ text1 = text2
    /\ Len(lines1) >= 3
    /\ \E n \in 1..(Len(lines1) - 1) : lines1[n] # lines1[n + 1]

\* C9: a null, undefined or empty argument is a document of zero lines; with
\* both arguments missing the result is empty with stats 0, 0, 0; with one
\* missing it holds exactly one added (or removed) record per line of the
\* other document.
C9_MissingArgument ==
    /\ (pc \notin {"preprocess", "split"} /\ IsMissing(text1)) => lines1 = <<>>
    /\ (pc \notin {"preprocess", "split"} /\ IsMissing(text2)) => lines2 = <<>>
    /\ (Returned /\ IsMissing(text1) /\ IsMissing(text2))
           => diff = <<>> /\ stats = ZeroStats
    /\ (Returned /\ IsMissing(text1) /\ ~IsMissing(text2))
           => /\ \A n \in 1..Len(diff) : diff[n].type = "added"
              /\ Contents(diff) = lines2
              /\ Len(diff) >= 1
    /\ (Returned /\ ~IsMissing(text1) /\ IsMissing(text2))
           => /\ \A n \in 1..Len(diff) : diff[n].type = "removed"
              /\ Contents(diff) = lines1
              /\ Len(diff) >= 1

C9_Witness ==
    /\ Returned
    /\ text1.kind = "null"
    /\ text2.kind = "string"
    /\ Len(diff) = 2

\* C10: the texts that end every line of one line list with LF, with CR LF or
\* with CR normalize to the same line list, and a diff between two of them
\* has no added and no removed record.
C10_LineBreakStyles ==
    (/\ pc \in {"lcs", "done"}
     /\ \E ls \in StyleLineSeqs : \E s, t \in LineBreaks :
           text1 = Str(Render(ls, s)) /\ text2 = Str(Render(ls, t)))
    => /\ lines1 = lines2
       /\ pc = "done" => \A n \in 1..Len(diff) : ~IsChange(diff[n])

C10_Witness ==
    /\ Returned
    /\ text1 = Str(Render(<<<<"a">>, <<>>, <<"a">>>>, <<CR, LF>>))
    /\ text2 = Str(Render(<<<<"a">>, <<>>, <<"a">>>>, <<CR>>))
    /\ lines1 = <<<<"a">>, <<>>, <<"a">>>>

\* C11: a non-empty text that does not end with a line break and the same
\* text followed by one LF normalize to the same line list, so a diff between
\* them has no added and no removed record; followed by two LF it has exactly
\* one more line, an empty one at the end.
C11_TrailingBreak ==
    (/\ pc \in {"lcs", "done"}
     /\ text1.kind = "string" /\ text2.kind = "string"
     /\ text1.val # <<>> /\ text1.val[Len(text1.val)] # LF)
    => /\ text2.val = text1.val \o <<LF>>
            => /\ lines1 = lines2
               /\ Len(lines1) >= 1
               /\ pc = "done" => \A n \in 1..Len(diff) : ~IsChange(diff[n])
       /\ text2.val = text1.val \o <<LF, LF>>
            => lines2 = Append(lines1, <<>>)

C11_Witness ==
    /\ Returned
    /\ text1 = Str(<<LF, "a">>)
    /\ text2 = Str(<<LF, "a", LF>>)
    /\ lines2 = <<<<>>, <<"a">>>>

\* C12: the diff of "a\nb\nc\n" and "a\nx\nc\n" is exactly context a (1, 1),
\* removed b (old 2), added x (new 2), context c (3, 3), with one addition,
\* one deletion and two changes.
C12_ExampleReplaceLine ==
    (Returned /\ text1 = Str(ExampleABC) /\ text2 = Str(ExampleAXC)) =>
        /\ diff = << [type |-> "context", oldLineNumber |-> 1, newLineNumber |-> 1,
                      content |-> <<"a">>, isIdLine |-> FALSE],
                     [type |-> "removed", oldLineNumber |-> 2,
                      content |-> <<"b">>, isIdLine |-> FALSE],
                     [type |-> "added", newLineNumber |-> 2,
                      content |-> <<"x">>, isIdLine |-> FALSE],
                     [type |-> "context", oldLineNumber |-> 3, newLineNumber |-> 3,
                      content |-> <<"c">>, isIdLine |-> FALSE] >>
        /\ stats = [additions |-> 1, deletions |-> 1, changes |-> 2]

C12_Witness ==
    /\ Returned /\ text1 = Str(ExampleABC) /\ text2 = Str(ExampleAXC)
    /\ Len(diff) = 4

\* C13 as stated: the diff of "foo" and "foo" is a single context record
\* with stats 0, 0, 0.
C13_SingleContextRecord ==
    (Returned /\ text1 = Str(ExampleFoo) /\ text2 = Str(ExampleFoo)) =>
        /\ Len(diff) = 1
        /\ diff[1].type = "context"
        /\ stats = ZeroStats

\* C13 (amended): for "foo" and "foo" the classifier produces the single
\* context record foo (1, 1); the collapser drops it, no change being in the
\* list, so the returned list is empty, with stats 0, 0, 0.
C13_FooFooIsEmpty ==
    (Returned /\ text1 = Str(ExampleFoo) /\ text2 = Str(ExampleFoo)) =>
        /\ result = << [type |-> "context", oldLineNumber |-> 1, newLineNumber |-> 1,
                        content |-> ExampleFoo, isIdLine |-> FALSE] >>
        /\ diff = <<>>
        /\ stats = ZeroStats

C13_Witness ==
    /\ Returned /\ text1 = Str(ExampleFoo) /\ text2 = Str(ExampleFoo)
    /\ lines1 = <<ExampleFoo>> /\ lines2 = <<ExampleFoo>>
    /\ Len(result) = 1

\* C14: the classifier's loop cannot stall: while i < |lines1| or
\* j < |lines2| the loop body takes one of its three branches, each of which
\* advances i or j; the cursors never pass the ends, and when the loop has
\* ended i = |lines1|, j = |lines2| and k = |lcs|.
C14_LoopAdvances ==
    /\ i <= Len(lines1) /\ j <= Len(lines2) /\ k <= Len(lcs)
    /\ Len(result) + k = i + j
    /\ (pc = "classify" /\ (i < Len(lines1) \/ j < Len(lines2)))
           => ClassifyBranch(lines1, lines2, lcs, i, j, k) \in {"context", "removed", "added"}
    /\ Classified => i = Len(lines1) /\ j = Len(lines2) /\ k = Len(lcs)

\* the loop has ended after taking each of the three branches
C14_Witness ==
    /\ Classified
    /\ k >= 2 /\ i > k /\ j > k
    /\ Len(result) >= 5

\* C15: the lines of a non-empty text joined with single LFs, plus one
\* trailing LF, are the text with CR LF and CR replaced by LF and a trailing
\* LF ensured; the lines of the empty text join to the empty text.
C15_RejoinIsNormalForm ==
    pc \in {"lcs", "done"} => Rejoins(text1, lines1) /\ Rejoins(text2, lines2)

C15_Witness ==
    /\ pc = "lcs"
    /\ text1 = Str(<<CR, LF, CR>>)
    /\ lines1 = <<<<>>, <<>>>>
    /\ text2 = Str(<<LF, "a">>)

\* C16 as stated: on a tie between the two neighbour cells the first
\* sequence's index is decremented, so the returned lcs is the one the
\* policy "prefer decrementing i" selects (documents of up to MaxLines lines).
C16_TieDecrementsFirst ==
    (Aligned /\ Len(lines1) <= MaxLines /\ Len(lines2) <= MaxLines)
        => lcs = RefWalk(lines1, lines2, Len(lines1), Len(lines2), "i")

\* C16 (amended): on a tie between the two neighbour cells the second
\* sequence's index j is decremented (i is decremented only when dp[i-1][j]
\* is strictly larger), so the returned lcs is the one the policy "prefer
\* decrementing j" selects (documents of up to MaxLines lines).
C16_TieDecrementsSecond ==
    (Aligned /\ Len(lines1) <= MaxLines /\ Len(lines2) <= MaxLines)
        => lcs = RefWalk(lines1, lines2, Len(lines1), Len(lines2), "j")

\* a tie at the first step of the walk, where the two policies part
C16_Witness ==
    /\ Aligned
    /\ lines1 = <<<<"a">>, <<"b">>>>
    /\ lines2 = <<<<"b">>, <<"a">>>>
    /\ lcs = <<<<"b">>>>

\* C17: in the full record list and in the collapsed list an added record is
\* never immediately followed by a removed record: inside every run of
\* changes the removed records come first.
C17_RemovedBeforeAdded ==
    /\ \A n \in 1..(Len(result) - 1) :
          ~(result[n].type = "added" /\ result[n + 1].type = "removed")
    /\ \A n \in 1..(Len(diff) - 1) :
          ~(diff[n].type = "added" /\ diff[n + 1].type = "removed")

\* a run of two removed records followed by two added records, and a later
\* removed record behind a context record
C17_Witness ==
    /\ Returned
    /\ \E n \in 1..(Len(diff) - 3) :
          /\ diff[n].type = "removed" /\ diff[n + 1].type = "removed"
          /\ diff[n + 2].type = "added" /\ diff[n + 3].type = "added"
    /\ \E n \in 1..(Len(diff) - 2) :
          /\ diff[n].type = "added" /\ diff[n + 1].type = "context"
          /\ diff[n + 2].type = "removed"

\* C18: when the two documents have the same normalized lines the full list
\* holds context records only, one per line, and the collapser drops them
\* all: the returned list is empty.
C18_NoChangeNoContext ==
    /\ (Collapsed /\ \A n \in 1..Len(result) : result[n].type = "context")
           => diff = <<>>
    /\ (Collapsed /\ lines1 = lines2)
           => /\ Len(result) = Len(lines1)
              /\ \A n \in 1..Len(result) : result[n].type = "context"
              /\ diff = <<>>

C18_Witness ==
    /\ Returned
    /\ text1 # text2
    /\ lines1 = lines2
    /\ Len(result) >= 3
    /\ diff = <<>>

\* C19: a document made solely of k >= 1 line breaks of one style (LF, CR LF
\* or CR) has exactly k lines, all empty; in any document every line break
\* ends one line and no blank line is dropped, the piece after the final line
\* break excepted.
C19_BlankLines ==
    pc \in {"lcs", "done"} =>
        /\ BlankDocument(text1, lines1) /\ BlankDocument(text2, lines2)
        /\ BlankLinesKept(processedText1, lines1)
        /\ BlankLinesKept(processedText2, lines2)

C19_Witness ==
    /\ pc = "lcs"
    /\ text1 = Str(<<CR, LF, CR, LF, CR, LF>>)
    /\ lines1 = <<<<>>, <<>>, <<>>>>
    /\ text2 = Str(<<CR, CR>>)
    /\ lines2 = <<<<>>, <<>>>>

\* C20 as stated: a record is flagged exactly when its trimmed content is
\* "{:" followed by one or more spaces followed by arbitrary characters,
\* nothing more being required.
C20_FlagIsOpenMarker ==
    \A n \in 1..Len(result) : result[n].isIdLine = OpenMarker(result[n].content)

\* C20 (amended): a record is flagged exactly when its content, trimmed of
\* white space, is "{:" followed by a run of one or more white-space
\* characters, followed by characters none of which is a line or paragraph
\* separator, and then a closing brace "}" (anything may follow the brace);
\* {: id="abc"} is flagged and "plain text" is not.
C20_FlagIsBraceMarker ==
    /\ \A n \in 1..Len(result) : result[n].isIdLine = BraceMarker(result[n].content)
    /\ \A n \in 1..Len(result) :
          /\ result[n].content = ExampleMarker => result[n].isIdLine
          /\ result[n].content = ExamplePlain => ~result[n].isIdLine

\* a flagged line with a no-break space in front, a vertical tab and a
\* paragraph separator as its run of blanks and text behind the brace, next
\* to an unflagged line that opens a marker and never closes it
C20_Witness ==
    /\ Classified
    /\ Len(result) = 2
    /\ result[1].content = <<NBSP, "{", ":", VT, PS, "}", "a">> /\ result[1].isIdLine
    /\ result[2].content = ExampleOpenMarker /\ ~result[2].isIdLine

\* C25: when computeTextDiff has returned, the full record list holds exactly
\* Len(lcs) context records, Len(lines1) - Len(lcs) removed records and
\* Len(lines2) - Len(lcs) added records (lcs is a longest common subsequence
\* by C2); the statistics report these numbers of deletions and additions,
\* and the statistics of the arguments in the other order have additions and
\* deletions exchanged.
C25_MinimalCounts ==
    Returned =>
        /\ CountType(result, "context") = Len(lcs)
        /\ CountType(result, "removed") = Len(lines1) - Len(lcs)
        /\ CountType(result, "added") = Len(lines2) - Len(lcs)
        /\ stats.deletions = Len(lines1) - Len(lcs)
        /\ stats.additions = Len(lines2) - Len(lcs)
        /\ LET swapped == computeTextDiff(text2, text1).stats
           IN  /\ swapped.additions = stats.deletions
               /\ swapped.deletions = stats.additions

\* common lines and more deletions than additions
C25_Witness ==
    /\ Returned
    /\ Len(lcs) >= 2
    /\ stats.additions >= 1 /\ stats.deletions > stats.additions

\* C26: every context record of the full list that has an added or removed
\* record at most 3 positions before it or after it is in the collapsed list.
C26_WindowKept ==
    Collapsed =>
        \A n \in 1..Len(result) :
            (/\ result[n].type = "context"
             /\ \E m \in 1..Len(result) :
                   IsChange(result[m]) /\ m - n <= 3 /\ n - m <= 3)
                => result[n] \in Range(diff)

\* a context record exactly 3 positions after the only change before it, with
\* no change after it, is kept while the next one is dropped
C26_Witness ==
    /\ Collapsed
    /\ \E n \in 4..(Len(result) - 1) :
          /\ IsChange(result[n - 3])
          /\ \A m \in (n - 2)..Len(result) : result[m].type = "context"
          /\ result[n] \in Range(diff)
          /\ result[n + 1] \notin Range(diff)

\* C27: every dialog that is shown has the five callbacks on window, and they
\* are the ones of its own closure.
C27_CallbacksOfOpenDialog ==
    \A d \in DialogIds :
        dialogs[d].state = "open" => \A n \in CallbackNames : window[n] = d

\* C21: once the title or the content of one of the two documents of a
\* comparison could not be retrieved (the host call threw or returned null),
\* its getDocumentInfo is rejected and never resolved, and the diff dialog of
\* that comparison is not shown; a getDocumentInfo resolves only with the
\* title reply and the content the host holds; the step in which
\* compareDocuments leaves its await after a failure shows an error message
\* and destroys the loading dialog, and it stays that way.
C21_FetchFailureShowsError ==
    [][\A c \in DialogIds :
           LET Failed(x) == \E n \in 1..2 :
                                \/ x.info[n].status = "rejected"
                                \/ x.results[n].title.status = "null"
               Held(n) == IF cmp[c].format = "kramdown"
                          THEN HostKramdown[ComparedDoc(c, n)]
                          ELSE store[ComparedDoc(c, n)]
           IN  /\ Failed(cmp'[c]) =>
                     /\ cmp'[c].pc \in {"loading", "failed"}
                     /\ dialogs'[c].state = "none"
               /\ \A n \in 1..2 :
                     /\ (cmp[c].results[n].title.status = "null"
                             /\ cmp'[c].info[n].status # "pending")
                            => cmp'[c].info[n].status = "rejected"
                     /\ (cmp[c].info[n].status = "pending"
                             /\ cmp'[c].info[n].status = "resolved")
                            => /\ cmp[c].results[n].title.status = "ok"
                               /\ cmp'[c].info[n].value.content = Held(n)
                     /\ cmp[c].info[n].status = "rejected"
                            => cmp'[c].info[n] = cmp[c].info[n]
               /\ (Failed(cmp[c]) /\ cmp[c].pc = "loading" /\ cmp'[c].pc # "loading") =>
                     /\ cmp'[c].pc = "failed"
                     /\ shown' = <<"error">>
                     /\ cmp'[c].loadingDialog = "destroyed"
               /\ cmp[c].pc = "failed" =>
                     cmp'[c].pc = "failed" /\ cmp'[c].loadingDialog = "destroyed"]_vars

\* the first document was fetched, a request of the second returned null, and
\* compareDocuments has ended with the error message and without a dialog
C21_Witness ==
    \E c \in DialogIds :
        /\ cmp[c].pc = "failed"
        /\ cmp[c].info[1].status = "resolved"
        /\ cmp[c].info[2] = Rejected("cannotGetDocInfo")
        /\ cmp[c].loadingDialog = "destroyed"
        /\ shown = <<"error">>
        /\ dialogs[c].state = "none"

\* C22: when updateBlock has thrown, the step in which revertLine, the confirm
\* callback of saveChanges or the confirm callback of revertChanges resumes
\* shows an error message and no success message, ends the handler, and
\* leaves every closure as it was: the dialog stays as shown, currentDoc1,
\* currentDoc2 and currentDiffResult keep their values.
C22_UpdateFailureKeepsState ==
    [][\A h \in Handlers :
           (ops[h].kind # "none" /\ ops[h].pc = "update"
                /\ ops[h].reply.status = "throws" /\ ops'[h] # ops[h])
               => /\ shown' = <<"error">>
                  /\ ops'[h] = NoOp
                  /\ dialogs' = dialogs
                  /\ window' = window
                  /\ store' = store]_vars

\* updateBlock has thrown for a revertLine whose dialog is shown
C22_Witness ==
    \E h \in Handlers :
        /\ ops[h].kind = "revertLine" /\ ops[h].pc = "update"
        /\ ops[h].reply.status = "throws"
        /\ dialogs[ops[h].d].state = "open"
        /\ ops[h].updatedContent # store[ops[h].newDocId]

\* the old line number the revert-line policy names for the added record at
\* position idx (1-based) of a diff result, for an old document of nOld lines
C23_Policy(lines, idx, newLineNumber, nOld) ==
    LET before == {n \in 1..(idx - 1) : HasOld(lines[n])}
        after == {n \in (idx + 1)..Len(lines) : HasOld(lines[n])}
        nearestBefore == CHOOSE n \in before : \A m \in before : m <= n
        nearestAfter == CHOOSE n \in after : \A m \in after : n <= m
    IN  IF before # {} THEN lines[nearestBefore].oldLineNumber
        ELSE IF after # {}
             THEN IF lines[nearestAfter].oldLineNumber - 1 < 1 THEN 1
                  ELSE lines[nearestAfter].oldLineNumber - 1
             ELSE IF newLineNumber > nOld THEN nOld ELSE newLineNumber

\* C23: when revertLine, applied to the added record at index idx of the
\* current diff result, chooses the old-document line that replaces the added
\* line, the record at idx is the record it was applied to and the line
\* chosen is that of the nearest record before idx that has an old line
\* number; otherwise that of the nearest record after idx that has one, minus
\* one and not below the first line; otherwise the line at the added line's
\* new line number, clamped to the last old line. The chosen index lies
\* within the old document's line array and the line written is the old
\* document's line at that index.
C23_ChosenOldLine ==
    [][\A h \in Handlers :
           (ops[h].kind = "revertLine" /\ ops[h].pc = "export"
                /\ ops[h].diffLine.type = "added"
                /\ ops'[h].kind = "revertLine" /\ ops'[h].pc = "update")
               => LET lines == dialogs[ops[h].d].currentDiffResult.lines
                      idx == ops[h].lineIndex + 1
                      oldLines == Split(ops[h].oldDocContent)
                      chosen == ops'[h].correspondingOldLineIndex + 1
                      newLineNumber == ops[h].diffLine.newLineNumber
                  IN  /\ idx <= Len(lines)
                      /\ lines[idx] = ops[h].diffLine
                      /\ chosen \in 1..Len(oldLines)
                      /\ chosen = C23_Policy(lines, idx, newLineNumber, Len(oldLines))
                      /\ Split(ops'[h].updatedContent)[newLineNumber]
                             = oldLines[chosen]]_vars

\* the policy of C23 in the runs where the diff result still holds the
\* clicked record at idx and the left document is the one whose content
\* revertLine captured when exportMdContent replies
C23_ChosenOldLineUninterrupted ==
    [][\A h \in Handlers :
           (ops[h].kind = "revertLine" /\ ops[h].pc = "export"
                /\ ops[h].diffLine.type = "added"
                /\ ops'[h].kind = "revertLine" /\ ops'[h].pc = "update")
               => LET c == dialogs[ops[h].d]
                      lines == c.currentDiffResult.lines
                      idx == ops[h].lineIndex + 1
                      oldLines == Split(c.currentDoc1.content)
                      chosen == ops'[h].correspondingOldLineIndex + 1
                      newLineNumber == ops[h].diffLine.newLineNumber
                  IN  (/\ idx <= Len(lines)
                       /\ lines[idx] = ops[h].diffLine
                       /\ c.currentDoc1.content = ops[h].oldDocContent)
                      => /\ chosen \in 1..Len(oldLines)
                         /\ chosen = C23_Policy(lines, idx, newLineNumber, Len(oldLines))
                         /\ Split(ops'[h].updatedContent)[newLineNumber]
                                = oldLines[chosen]]_vars

\* C24: a step that changes the view mode of a dialog changes nothing else of
\* its closure: currentDoc1, currentDoc2 and isSwapped are unchanged and the
\* recomputed currentDiffResult equals the diff result held before the
\* switch; the rendering is the one of the new mode.
C24_ModeSwitchKeepsDiff ==
    [][\A d \in DialogIds :
           (dialogs[d].state = "open"
                /\ dialogs'[d].currentMode # dialogs[d].currentMode)
               => /\ dialogs'[d].currentDoc1 = dialogs[d].currentDoc1
                  /\ dialogs'[d].currentDoc2 = dialogs[d].currentDoc2
                  /\ dialogs'[d].isSwapped = dialogs[d].isSwapped
                  /\ dialogs'[d].currentDiffResult = dialogs[d].currentDiffResult
                  /\ dialogs'[d].state = dialogs[d].state
                  /\ dialogs'[d].rendered.mode = dialogs'[d].currentMode
                  /\ store' = store]_vars

\* a swapped dialog with additions and deletions has been switched to the
\* side-by-side view
C24_Witness ==
    \E d \in DialogIds :
        /\ dialogs[d].state = "open"
        /\ dialogs[d].currentMode = SIDE_BY_SIDE
        /\ dialogs[d].isSwapped
        /\ dialogs[d].currentDiffResult.stats.additions > 0
        /\ dialogs[d].currentDiffResult.stats.deletions > 0

\* C28: the two sides of a shown diff dialog hold the two distinct documents
\* that were compared, one each by id, whatever swaps were clicked while a
\* revertLine or a saveChanges confirmation awaited the host.
C28_TwoDistinctDocuments ==
    \A d \in DialogIds :
        (dialogs[d].state = "open" /\ cmp[d].docId1 # cmp[d].docId2)
            => /\ dialogs[d].currentDoc1.id # dialogs[d].currentDoc2.id
               /\ {dialogs[d].currentDoc1.id, dialogs[d].currentDoc2.id}
                      = {cmp[d].docId1, cmp[d].docId2}

\* C29: in every shown dialog, currentDiffResult is the result of
\* computeTextDiff on the contents of currentDoc1 and currentDoc2, and the
\* line index carried by every revert button of the rendered unified view is
\* the index of an added record of currentDiffResult.
C29_DiffResultIsCurrent ==
    \A d \in DialogIds :
        dialogs[d].state = "open"
            => LET c == dialogs[d]
               IN  /\ c.currentDiffResult
                          = computeTextDiff(Str(c.currentDoc1.content),
                                            Str(c.currentDoc2.content))
                   /\ \A lineIndex \in c.rendered.revertButtons :
                          /\ lineIndex + 1 \in 1..Len(c.currentDiffResult.lines)
                          /\ c.currentDiffResult.lines[lineIndex + 1].type = "added"
                   /\ c.rendered.mode = c.currentMode

\* a swapped dialog in the unified view after a completed handler that
\* changed the stored right-hand document and refreshed it: revert buttons
\* are still offered
C29_Witness ==
    \E d \in DialogIds :
        /\ dialogs[d].state = "open"
        /\ \A h \in Handlers : ops[h] = NoOp
        /\ started = 1 /\ shown = <<>>
        /\ dialogs[d].isSwapped
        /\ dialogs[d].currentMode = UNIFIED
        /\ dialogs[d].rendered.revertButtons # {}
        /\ dialogs[d].currentDoc2.id # dialogs[d].currentDoc1.id
        /\ dialogs[d].currentDoc2.content = store[dialogs[d].currentDoc2.id]
        /\ store \notin StoredDocuments
        /\ dialogs[d].currentDiffResult.stats.deletions > 0

\* C30: revertLine on an added record takes as its target the document on the
\* right-hand side when it is invoked and keeps it; the only document whose
\* stored content it changes is that target, and the content written is the
\* one it computed. When exportMdContent has replied, the content it computes
\* is the fetched content with the line at the record's newLineNumber
\* replaced: the number of lines and every other line are those fetched; if
\* newLineNumber lies outside the fetched lines, revertLine ends and nothing
\* is written.
C30_RevertLineWritesOneLine ==
    [][\A h \in Handlers :
           LET o == ops[h]
               p == ops'[h]
           IN  /\ (o = NoOp /\ p.kind = "revertLine" /\ p.diffLine.type = "added")
                      => /\ p.newDocId = dialogs[p.d].currentDoc2.id
                         /\ p.diffLine = dialogs[p.d].currentDiffResult.lines[p.lineIndex + 1]
                         /\ store' = store
               /\ (o.kind = "revertLine" /\ o.diffLine.type = "added" /\ p # o)
                      => /\ p.kind = "revertLine" => p.newDocId = o.newDocId
                         /\ store' # store
                                => /\ o.pc = "update"
                                   /\ store' = [store EXCEPT ![o.newDocId] = o.updatedContent]
                         /\ (o.pc = "export" /\ o.reply.status = "ok")
                                => LET fetched == Split(o.reply.data.content)
                                       newLineNumber == o.diffLine.newLineNumber
                                   IN  IF newLineNumber \notin 1..Len(fetched)
                                       THEN p = NoOp /\ shown' = <<>>
                                       ELSE p.kind = "revertLine"
                                                => LET written == Split(p.updatedContent)
                                                   IN  /\ p.pc = "update"
                                                       /\ Len(written) = Len(fetched)
                                                       /\ \A m \in 1..Len(fetched) :
                                                              m # newLineNumber
                                                                  => written[m] = fetched[m]
                         /\ p = NoOp => store' = store]_vars

\* updateBlock has stored what a revertLine computed from a fetched content
\* of several lines: the right-hand document changed, the left-hand one is
\* as the dialog holds it
C30_Witness ==
    \E h \in Handlers :
        /\ ops[h].kind = "revertLine" /\ ops[h].pc = "update"
        /\ ops[h].reply.status = "ok"
        /\ store[ops[h].newDocId] = ops[h].updatedContent
        /\ ops[h].updatedContent # ops[h].newDocCurrentContent
        /\ Len(Split(ops[h].newDocCurrentContent)) > 2
        /\ ops[h].diffLine.type = "added"
        /\ ops[h].diffLine.newLineNumber > 1
        /\ dialogs[ops[h].d].currentDoc2.id = ops[h].newDocId
        /\ dialogs[ops[h].d].currentDoc1.id # ops[h].newDocId
        /\ store[dialogs[ops[h].d].currentDoc1.id] = dialogs[ops[h].d].currentDoc1.content

====
